---- MODULE Spec2Model ----
(***************************************************************************)
(* Model of the protocol-normalization layer of 5ire:                      *)
(*   - makeToolMessages of the Anthropic and Ollama adapters               *)
(*     (src/intellichat/services/AnthropicChatService.ts,                  *)
(*      src/intellichat/services/OllamaChatService.ts);                    *)
(*   - makePayload of the Anthropic adapter;                               *)
(*   - the chat turn driven by Chat.onSubmit (renderer/pages/.../Grid.tsx) *)
(*     together with the chat engine it calls.                             *)
(*                                                                         *)
(* JavaScript strings are sequences of tokens, so that joins and           *)
(* serialisations are computed rather than assumed.                        *)
(***************************************************************************)
EXTENDS Integers, Sequences, FiniteSets, TLC

\* ------------------------------------------------------------------ bounds
\* longest content array of a tool result
MaxBlocks == 2
\* text deltas one chat turn may stream
MaxDeltas == 1
\* longest prompt string, in tokens
MaxPrompt == 3

\* --------------------------------------------------------------- JS values
Undefined == [ty |-> "undefined", s |-> <<>>]
Str(s) == [ty |-> "string", s |-> s]

\* JSON.stringify: undefined stays undefined, a string is quoted
Stringify(v) ==
  IF v.ty = "undefined" THEN Undefined
  ELSE IF v.ty = "array" THEN Str(<<"[", "json", "]">>)
  ELSE Str(<<"\"">> \o v.s \o <<"\"">>)

RECURSIVE Join(_, _)
\* Array.prototype.join over a sequence of token strings
Join(strs, sep) ==
  IF Len(strs) = 0 THEN <<>>
  ELSE IF Len(strs) = 1 THEN strs[1]
  ELSE strs[1] \o sep \o Join(Tail(strs), sep)

\* ----------------------------------------------------- tool-result inputs
ToolIds == {"call_1", "call_2"}
ToolName == "srv--read"

\* MCP content blocks a tool host can return
Blocks ==
  { [type |-> "text", data |-> "a"],
    [type |-> "text", data |-> "b"],
    [type |-> "image", data |-> "img"],
    [type |-> "resource_link", data |-> "uri"] }

BlockSeqs == UNION { [1..n -> Blocks] : n \in 0..MaxBlocks }

\* toolResult.content: undefined, '', a non-array value, or an array of blocks
ContentUndefined == [ck |-> "undefined", blocks |-> <<>>]
ContentEmptyString == [ck |-> "emptystring", blocks |-> <<>>]
ContentPlain == [ck |-> "plain", blocks |-> <<>>]
ContentArray(bs) == [ck |-> "array", blocks |-> bs]

StringResult(s) ==
  [kind |-> "string", text |-> s, isError |-> FALSE, error |-> Undefined,
   content |-> ContentUndefined]
ObjectResult(isErr, err, c) ==
  [kind |-> "object", text |-> <<>>, isError |-> isErr, error |-> err,
   content |-> c]

ToolResults ==
  {StringResult(<<"ok">>)}
  \cup {ObjectResult(TRUE, e, c) :
          e \in {Undefined, Str(<<"boom">>)},
          c \in {ContentUndefined, ContentArray(<<[type |-> "text", data |-> "a"]>>)}}
  \cup {ObjectResult(FALSE, Undefined, c) :
          c \in {ContentUndefined, ContentEmptyString, ContentPlain}}
  \cup {ObjectResult(FALSE, Undefined, ContentArray(bs)) : bs \in BlockSeqs}

\* JS truthiness of toolResult.content ('' and undefined are falsy, [] is truthy)
Truthy(c) == c.ck \in {"plain", "array"}

\* Array.isArray(toolResult.content) ? toolResult.content : []
ContentParts(toolResult) ==
  IF toolResult.content.ck = "array" THEN toolResult.content.blocks ELSE <<>>

\* faulty variant: the isError test of the content branch is dropped
NeedsConversionIgnoringError(toolResult) ==
  Truthy(toolResult.content)

\* !toolResult.isError && toolResult.content
NeedsConversion(toolResult) ==
  ~toolResult.isError /\ Truthy(toolResult.content)

\* --------------------------------------------------- content block converter
\* outcomes of window.electron.mcp.readResource for a resource link
LinkOutcomes == {"text", "blob", "isError", "reject"}

NoBlock == [type |-> "none", text |-> <<>>, data |-> ""]

\* the rejection of a conversion, in place of its block
Rejected == [type |-> "rejected", text |-> <<>>, data |-> ""]

\* the block a resource link degrades to when its resolver fails
EmptyBlock == [type |-> "text", text |-> <<>>, data |-> ""]

\* what the resolver handed to convert yields (Anthropic 112-122): the
\* contents read, [] when readResource reports isError, or a rejection
Resolve(outcome) ==
  IF outcome = "isError" THEN "empty"
  ELSE IF outcome = "reject" THEN "rejected"
  ELSE outcome

\* faulty variant: a rejected resolver call rejects the conversion
ConvertPropagating(block, outcome) ==
  CASE block.type = "text" ->
         [type |-> "text", text |-> <<block.data>>, data |-> ""]
    [] block.type = "image" ->
         [type |-> "image", text |-> <<>>, data |-> block.data]
    [] block.type = "resource_link" ->
         IF Resolve(outcome) = "text"
           THEN [type |-> "text", text |-> <<"res", block.data>>, data |-> ""]
         ELSE IF Resolve(outcome) = "blob"
           THEN [type |-> "image", text |-> <<>>, data |-> block.data]
         ELSE IF Resolve(outcome) = "rejected" THEN Rejected
         ELSE EmptyBlock

\* MCPContentBlockConverter.convert(block, resolver)
Convert(block, outcome) ==
  CASE block.type = "text" ->
         [type |-> "text", text |-> <<block.data>>, data |-> ""]
    [] block.type = "image" ->
         [type |-> "image", text |-> <<>>, data |-> block.data]
    [] block.type = "resource_link" ->
         IF Resolve(outcome) = "text"
           THEN [type |-> "text", text |-> <<"res", block.data>>, data |-> ""]
         ELSE IF Resolve(outcome) = "blob"
           THEN [type |-> "image", text |-> <<>>, data |-> block.data]
         ELSE EmptyBlock

\* MCPContentBlockConverter.contentBlockToLegacyMessageContent(block)
ContentBlockToLegacyMessageContent(b) ==
  IF b.type = "text"
    THEN [type |-> "text", text |-> b.text]
    ELSE [type |-> "image_url", url |-> <<"data:", b.data>>]

AllText(cb) == \A i \in 1..Len(cb) : cb[i].type = "text"

\* ---------------------------------------- Anthropic makeToolMessages (pure)
AnthropicNote == <<"NOTE: placeholder, see the following parts of this message">>

ToolResultPart(id, c) == [type |-> "tool_result", tool_use_id |-> id, content |-> c]

\* faulty variant: the text-only branch also appends one legacy part per block
AnthropicPartsAlwaysAppending(tool, toolResult, cb) ==
  LET p1 == IF toolResult.kind = "string"
              THEN <<ToolResultPart(tool.id, Str(toolResult.text))>> ELSE <<>>
      p2 == IF toolResult.isError
              THEN <<ToolResultPart(tool.id, Stringify(toolResult.error))>> ELSE <<>>
      p3 == IF NeedsConversion(toolResult)
              THEN <<ToolResultPart(tool.id,
                       IF AllText(cb)
                         THEN Str(Join([i \in 1..Len(cb) |-> cb[i].text],
                                       <<"\n\n\n">>))
                         ELSE Str(AnthropicNote))>>
                   \o [i \in 1..Len(cb) |->
                         ContentBlockToLegacyMessageContent(cb[i])]
              ELSE <<>>
  IN p1 \o p2 \o p3

\* the `parts` array built by lines 84-147
AnthropicParts(tool, toolResult, cb) ==
  LET p1 == IF toolResult.kind = "string"
              THEN <<ToolResultPart(tool.id, Str(toolResult.text))>> ELSE <<>>
      p2 == IF toolResult.isError
              THEN <<ToolResultPart(tool.id, Stringify(toolResult.error))>> ELSE <<>>
      p3 == IF NeedsConversion(toolResult)
              THEN IF AllText(cb)
                     THEN <<ToolResultPart(tool.id,
                              Str(Join([i \in 1..Len(cb) |-> cb[i].text],
                                       <<"\n\n\n">>)))>>
                     ELSE <<ToolResultPart(tool.id, Str(AnthropicNote))>>
                          \o [i \in 1..Len(cb) |->
                                ContentBlockToLegacyMessageContent(cb[i])]
              ELSE <<>>
  IN p1 \o p2 \o p3

\* tool.args ?? {}
ArgsOrEmpty(tool) == IF tool.args = "none" THEN "{}" ELSE tool.args

\* faulty variant: rich content goes to a separate supplemental user message, as in
\* the OpenAI-style adapters
AnthropicMakeToolMessagesSupplemental(tool, toolResult, cb, content) ==
  LET toolUse == [type |-> "tool_use", id |-> tool.id, name |-> tool.name,
                  input |-> ArgsOrEmpty(tool)]
      lead == IF content # <<>> THEN <<[type |-> "text", text |-> content]>>
              ELSE <<>>
      parts == AnthropicParts(tool, toolResult, cb)
  IN IF NeedsConversion(toolResult) /\ ~AllText(cb)
       THEN << [role |-> "assistant", content |-> lead \o <<toolUse>>],
               [role |-> "user", content |-> <<parts[1]>>],
               [role |-> "user", content |-> Tail(parts)] >>
       ELSE << [role |-> "assistant", content |-> lead \o <<toolUse>>],
               [role |-> "user", content |-> parts] >>

\* lines 149-172: the two messages, with the optional leading text part
AnthropicMakeToolMessages(tool, toolResult, cb, content) ==
  LET toolUse == [type |-> "tool_use", id |-> tool.id, name |-> tool.name,
                  input |-> ArgsOrEmpty(tool)]
      lead == IF content # <<>> THEN <<[type |-> "text", text |-> content]>>
              ELSE <<>>
  IN << [role |-> "assistant", content |-> lead \o <<toolUse>>],
        [role |-> "user", content |-> AnthropicParts(tool, toolResult, cb)] >>

\* ------------------------------------------- Ollama makeToolMessages (pure)
OllamaNote == <<"{\"message\":\"NOTE: placeholder, see the next user message\"}">>

TextPart(v) == [type |-> "text", text |-> v]

\* toolMessageContent built by lines 93-145
OllamaToolMessageContent(toolResult, cb) ==
  LET p1 == IF toolResult.kind = "string"
              THEN <<TextPart(Str(toolResult.text))>> ELSE <<>>
      p2 == IF toolResult.isError
              THEN <<TextPart(Stringify(toolResult.error))>> ELSE <<>>
      p3 == IF NeedsConversion(toolResult)
              THEN IF AllText(cb)
                     THEN [i \in 1..Len(cb) |->
                             ContentBlockToLegacyMessageContent(cb[i])]
                     ELSE <<TextPart(Str(OllamaNote))>>
              ELSE <<>>
  IN p1 \o p2 \o p3

\* faulty variant: a supplement is emitted for every converted content, text-only too
OllamaSupplementAlways(toolResult, cb) ==
  IF NeedsConversion(toolResult)
    THEN << [role |-> "user",
             content |-> [i \in 1..Len(cb) |->
                            ContentBlockToLegacyMessageContent(cb[i])]] >>
    ELSE <<>>

\* the supplement message of lines 146-153, as a sequence of zero or one message
OllamaSupplement(toolResult, cb) ==
  IF NeedsConversion(toolResult) /\ ~AllText(cb)
    THEN << [role |-> "user",
             content |-> [i \in 1..Len(cb) |->
                            ContentBlockToLegacyMessageContent(cb[i])]] >>
    ELSE <<>>

\* lines 157-183
OllamaMakeToolMessages(tool, toolResult, cb) ==
  << [role |-> "assistant",
      tool_calls |-> << [id |-> tool.id, type |-> "function",
                         function |-> [arguments |-> tool.args,
                                       name |-> tool.name]] >>],
     [role |-> "tool", name |-> tool.name,
      content |-> OllamaToolMessageContent(toolResult, cb),
      tool_call_id |-> tool.id] >>
  \o OllamaSupplement(toolResult, cb)

\* ------------------------------------------------ Anthropic makeMessages
Arr(parts) == [ty |-> "array", parts |-> parts]

\* the embedded images a prompt string may hold: one local (data: URL), two remote
LocalImgTokens == {"img:local"}
RemoteImgTokens == {"img:url1", "img:url2"}
IsImgToken(tok) == tok \in LocalImgTokens \cup RemoteImgTokens

\* stripHtmlTags: drops the tag tokens of a string (an <img> is a tag)
IsTag(tok) == tok \in {"<b>", "</b>"} \/ IsImgToken(tok)
StripHtmlTags(v) == Str(SelectSeq(v.s, LAMBDA tok : ~IsTag(tok)))

\* faulty variant: a part of an unsupported type is passed on as it is
AnthropicConvertItemPassing(item) ==
  IF item.type = "text" THEN [type |-> "text", text |-> item.text]
  ELSE IF item.type = "image_url"
    THEN [type |-> "image", source |-> [type |-> "url", url |-> item.url]]
  ELSE item

\* one item of an array content (lines 319-358)
AnthropicConvertItem(item) ==
  IF item.type = "text" THEN [type |-> "text", text |-> item.text]
  ELSE IF item.type = "image_url"
    THEN [type |-> "image", source |-> [type |-> "url", url |-> item.url]]
  ELSE [type |-> "text", text |-> <<>>]

\* one new message (lines 297-366); conv is what convertPromptContent returned
\* for its content, used when the content is a string
AnthropicProcessMessage(msg, conv) ==
  IF msg.role = "tool"
    THEN [content |-> Stringify(msg.content), type |-> "tool_result",
          tool_use_id |-> msg.tool_call_id]
  ELSE IF msg.role = "assistant" /\ "tool_calls" \in DOMAIN msg
    THEN msg
  ELSE IF msg.content.ty = "string"
    THEN [role |-> msg.role, content |-> conv]
  ELSE IF msg.content.ty = "array"
    THEN [role |-> msg.role,
          content |-> Arr([i \in 1..Len(msg.content.parts) |->
                             AnthropicConvertItem(msg.content.parts[i])])]
  ELSE [role |-> msg.role, content |-> Str(<<>>)]

\* JSON.stringify of an array: the text as a sequence of tokens
JsonStringify(list) ==
  LET n == IF list = <<>> THEN 2 ELSE 2 * Len(list) + 1
  IN [k \in 1..n |-> IF k = 1 THEN "["
                     ELSE IF k = n THEN "]"
                     ELSE IF k % 2 = 0 THEN list[k \div 2]
                     ELSE ","]

\* JSON.parse accepts the text (otherwise it throws)
JsonParsable(text) ==
  /\ Len(text) >= 2
  /\ text[1] = "["
  /\ text[Len(text)] = "]"
  /\ \/ Len(text) = 2
     \/ /\ Len(text) % 2 = 1
        /\ \A k \in 1..((Len(text) - 3) \div 2) : text[2 * k + 1] = ","

\* JSON.parse of an array text: its elements
JsonParse(text) == [k \in 1..((Len(text) - 1) \div 2) |-> text[2 * k]]

\* the reduce of lines 261-294 runs through: no stored structuredPrompts text
\* makes JSON.parse throw (lines 269-273)
CtxParses(history) ==
  \A i \in 1..Len(history) :
    history[i].structuredPrompts # <<>> => JsonParsable(history[i].structuredPrompts)

RECURSIVE CtxToMessages(_)
\* the reduce over context.getCtxMessages (lines 261-294); structuredPrompts is
\* the stored text, the empty text standing for null as well
CtxToMessages(history) ==
  IF history = <<>> THEN <<>>
  ELSE LET msg == Head(history)
           strucuredPrompts == JsonParse(msg.structuredPrompts)
           msgs == IF msg.structuredPrompts # <<>>
                     THEN [i \in 1..Len(strucuredPrompts) |->
                             [role |-> strucuredPrompts[i].role,
                              content |-> strucuredPrompts[i].content]]
                     ELSE <<[role |-> "user", content |-> msg.prompt]>>
       IN msgs \o <<[role |-> "assistant", content |-> msg.reply]>>
          \o CtxToMessages(Tail(history))

\* lines 261-369, given per new message the converted prompt content
AnthropicMakeMessagesWith(history, messages, conv) ==
  CtxToMessages(history)
  \o [i \in 1..Len(messages) |-> AnthropicProcessMessage(messages[i], conv[i])]

\* convertPromptContent of a model without vision (line 247)
NonVisionContent(msg) ==
  IF msg.content.ty = "string" THEN StripHtmlTags(msg.content) ELSE Undefined

\* makeMessages for a model without vision
AnthropicMakeMessages(history, messages) ==
  AnthropicMakeMessagesWith(history, messages,
    [i \in 1..Len(messages) |-> NonVisionContent(messages[i])])

\* -------------------------------------------------- Anthropic makePayload
Null == "null"
NoKeys == [k \in {} |-> 0]

\* the value of listTools(): null, or {tools: [...]}
NoTools == [isNull |-> TRUE, tools |-> <<>>]
Listed(ts) == [isNull |-> FALSE, tools |-> ts]

\* tools the MCP host may list
HostToolNames == <<"srv--read", "srv--list", "fs--stat">>
McpTool(n) ==
  [name |-> n, description |-> "d",
   inputSchema |-> [type |-> "object", properties |-> "props+additional",
                    required |-> Null]]

\* removeAdditionalProperties(properties) || {}
RemoveAdditionalProperties(props) ==
  IF props = Null THEN "{}" ELSE "props"

\* makeTool (lines 182-193)
MakeTool(t) ==
  [name |-> t.name, description |-> t.description,
   input_schema |-> [type |-> t.inputSchema.type,
                     properties |-> RemoveAdditionalProperties(t.inputSchema.properties),
                     required |-> IF t.inputSchema.required = Null THEN <<>>
                                  ELSE t.inputSchema.required]]

\* isBlank(systemMessage)
IsBlank(v) == v.ty = "undefined" \/ \A i \in 1..Len(v.s) : v.s[i] = " "

\* faulty variant: the usedToolNames filter is missing
UnusedToolsUnfiltered(listed, used) ==
  [i \in 1..Len(listed.tools) |-> MakeTool(listed.tools[i])]

\* tools.tools.filter(not used).map(makeTool) (lines 399-403)
UnusedTools(listed, used) ==
  LET kept == SelectSeq(listed.tools, LAMBDA t : t.name \notin used)
  IN [i \in 1..Len(kept) |-> MakeTool(kept[i])]

\* faulty variant: tool_choice is always sent
ToolKeysAlwaysChoice(ctx, listed, used) ==
  [tool_choice |-> [type |-> "auto", disable_parallel_tool_use |-> TRUE]]
  @@ (IF ctx.toolsEnabled /\ ~listed.isNull /\ Len(UnusedTools(listed, used)) > 0
        THEN [tools |-> UnusedTools(listed, used)]
        ELSE NoKeys)

\* the keys added by lines 396-412
ToolKeys(ctx, listed, used) ==
  IF ctx.toolsEnabled /\ ~listed.isNull /\ Len(UnusedTools(listed, used)) > 0
    THEN [tools |-> UnusedTools(listed, used),
          tool_choice |-> [type |-> "auto", disable_parallel_tool_use |-> TRUE]]
    ELSE NoKeys

\* makePayload (lines 379-417); `converted` is the result of makeMessages,
\* `listed` the value of window.electron.mcp.listTools()
MakePayload(ctx, convertedMessages, listed, used) ==
  [model |-> ctx.model, messages |-> convertedMessages,
   temperature |-> ctx.temperature, stream |-> TRUE]
  @@ (IF ~IsBlank(ctx.systemMessage) THEN [system |-> ctx.systemMessage]
      ELSE NoKeys)
  @@ (IF ctx.maxTokens # 0 THEN [max_tokens |-> ctx.maxTokens] ELSE NoKeys)
  @@ ToolKeys(ctx, listed, used)

\* ------------------------------------------------------------------- state
VARIABLES
  adapter,      \* "anthropic" | "ollama": the service whose method runs
  tool,         \* ITool {id, name, args}
  toolResult,   \* the value returned by the tool host
  content,      \* the optional text preceding the tool call
  tmPc,         \* position inside makeToolMessages
  converted,    \* per block: the FinalContentBlock, or NoBlock while pending
  order,        \* block indices in the order their conversions completed
  tmResult,     \* the returned message list
  ctx,          \* Chat Context: model, temperature, maxTokens, systemMessage, toolsEnabled
  listed,       \* what window.electron.mcp.listTools() returns
  prompt,       \* the submitted prompt: kind, emptiness, retry of an old message
  pc,           \* position of Chat.onSubmit
  svc,          \* the chat service instance created by the submit
  store,        \* useChatStore: the turn's message, states[chatId], notifications
  cnt,          \* how often each observer ran, and the HTTP requests issued
  payload,      \* the payload of the latest request
  hist,         \* what had happened when abort() was called, where it was seen
  cpAdapter,    \* convertPromptContent: the adapter whose method runs
  cpVision,     \* capabilities.vision?.enabled of the model
  cpContent,    \* the prompt string, as tokens (words, tags, embedded images)
  cpPc,         \* position inside convertPromptContent
  cpFetch,      \* per item of splitByImg: the state of its remote fetch
  cpResult,     \* the returned content
  mmAdapter,    \* makeMessages: the adapter whose method runs
  mmVision,     \* capabilities.vision?.enabled of the model
  mmHistory,    \* context.getCtxMessages(msgId)
  mmMessages,   \* the list the adapter's own code works on
  mmPc,         \* position inside makeMessages
  mmTask,       \* per message: the state of its async callback
  heap,         \* the image arrays, by reference
  mmOut,        \* the list being built, then returned
  rqAdapter,    \* makeRequest: the adapter whose method runs
  liveCtx,      \* the Chat Context as its getters answer right now
  rqPc,         \* position inside makeRequest / makePayload
  rqReq,        \* the request as far as it is assembled
  rqSeen,       \* the context values that were current during the call
  current,      \* chatService.current, the ref shared by all submits
  services,     \* the service instances created so far
  turn,         \* per concurrent submit: its position and what it sent
  cs,           \* useChatStore: folders, chats, chat, messages
  csLast,       \* the latest store call: its name, the database answer, whether it threw
  ap,           \* useAppearanceStore: theme, sidebar, chatSidebar
  ls            \* localStorage

tmVars == <<adapter, tool, toolResult, content, tmPc, converted, order, tmResult>>

chatVars == <<ctx, listed, prompt, pc, svc, store, cnt, payload, hist>>

cpVars == <<cpAdapter, cpVision, cpContent, cpPc, cpFetch, cpResult>>

mmVars == <<mmAdapter, mmVision, mmHistory, mmMessages, mmPc, mmTask, heap, mmOut>>

rqVars == <<rqAdapter, liveCtx, rqPc, rqReq, rqSeen>>

twoVars == <<current, services, turn>>

csVars == <<cs, csLast>>

apVars == <<ap, ls>>

\* the variables of the conversion, request and concurrent-submit runs
auxVars == <<cpVars, mmVars, rqVars, twoVars, csVars, apVars>>

vars == <<adapter, tool, toolResult, content, tmPc, converted, order, tmResult,
          ctx, listed, prompt, pc, svc, store, cnt, payload, hist,
          cpAdapter, cpVision, cpContent, cpPc, cpFetch, cpResult,
          mmAdapter, mmVision, mmHistory, mmMessages, mmPc, mmTask, heap, mmOut,
          rqAdapter, liveCtx, rqPc, rqReq, rqSeen,
          current, services, turn, cs, csLast, ap, ls>>

\* ------------------------------------------------------- quiescent parts
NoPayload == NoKeys
NoService ==
  [exists |-> FALSE, aborted |-> FALSE, usedToolNames |-> {}, state |-> "Idle",
   round |-> 0, messages |-> <<>>, reply |-> <<>>, deltas |-> 0,
   pendingTool |-> Null, limited |-> FALSE]
NoCounts == [complete |-> 0, error |-> 0, reading |-> 0, toolCalls |-> 0, http |-> 0]
NoHist == [abortEvents |-> -1, abortHttp |-> -1, cancelSeen |-> "none",
           thrown |-> FALSE]
EmptyStore == [message |-> NoKeys, states |-> NoKeys, notifications |-> 0]

\* the chat turn is not part of the run
ChatIdle ==
  /\ ctx = [model |-> "m", temperature |-> 1, maxTokens |-> 0,
            systemMessage |-> Undefined, toolsEnabled |-> FALSE]
  /\ listed = NoTools
  /\ prompt = [kind |-> "string", empty |-> TRUE, retry |-> FALSE]
  /\ pc = "off"
  /\ svc = NoService
  /\ store = EmptyStore
  /\ cnt = NoCounts
  /\ payload = NoPayload
  /\ hist = NoHist

\* makeToolMessages is not part of the run
TMIdle ==
  /\ adapter = "anthropic"
  /\ tool = [id |-> "call_1", name |-> ToolName, args |-> "none"]
  /\ toolResult = StringResult(<<"ok">>)
  /\ content = <<>>
  /\ tmPc = "off"
  /\ converted = <<>>
  /\ order = <<>>
  /\ tmResult = <<>>

\* convertPromptContent is not part of the run
CPIdle ==
  /\ cpAdapter = "anthropic"
  /\ cpVision = FALSE
  /\ cpContent = <<>>
  /\ cpPc = "off"
  /\ cpFetch = <<>>
  /\ cpResult = NoKeys

\* makeMessages is not part of the run
MMIdle ==
  /\ mmAdapter = "anthropic"
  /\ mmVision = FALSE
  /\ mmHistory = <<>>
  /\ mmMessages = <<>>
  /\ mmPc = "off"
  /\ mmTask = <<>>
  /\ heap = <<>>
  /\ mmOut = <<>>

\* makeRequest is not part of the run
RQIdle ==
  /\ rqAdapter = "anthropic"
  /\ liveCtx = NoKeys
  /\ rqPc = "off"
  /\ rqReq = NoKeys
  /\ rqSeen = {}

\* no concurrent submits are part of the run
TwoIdle ==
  /\ current = 0
  /\ services = <<>>
  /\ turn = <<>>

\* neither store is part of the run
StoresIdle ==
  /\ cs = NoKeys
  /\ csLast = NoKeys
  /\ ap = NoKeys
  /\ ls = NoKeys

AuxIdle == CPIdle /\ MMIdle /\ RQIdle /\ TwoIdle /\ StoresIdle

\* ------------------------------------------------------- useChatStore pieces
\* updateStates: Object.assign(state.states[chatId] || {}, states)
UpdateStates(st, patch) == [st EXCEPT !.states = patch @@ st.states]

\* updateMessage: merges the given fields into the stored message, if it is there
UpdateMessage(st, patch) ==
  IF "id" \in DOMAIN st.message
    THEN [st EXCEPT !.message = patch @@ st.message]
    ELSE st

\* createMessage: appends the message to the store
CreateMessage(st, msg) == [st EXCEPT !.message = msg]

\* appendReply: reply and reasoning grow by the delta
AppendReply(st, reply) ==
  IF "id" \in DOMAIN st.message
    THEN [st EXCEPT !.message = [reply |-> st.message.reply \o reply] @@ st.message]
    ELSE st

NotifyError(st) == [st EXCEPT !.notifications = st.notifications + 1]

\* -------------------------------------------- observers registered by onSubmit
\* onChatComplete (Grid.tsx 1887-2003)
OnChatComplete(st, result) ==
  LET upd == IF result.error /\ result.content = <<>>
               THEN UpdateMessage(st, [isActive |-> 0])
               ELSE UpdateMessage(st, [reply |-> result.content, isActive |-> 0])
  IN UpdateStates(upd, [loading |-> FALSE, runningTool |-> Null])

\* onReading handler (2005-2010)
OnReading(st, delta) == AppendReply(st, delta)

\* onToolCalls handler (2011-2013)
OnToolCalls(st, toolName) == UpdateStates(st, [runningTool |-> toolName])

\* onError handler (2014-2024)
OnError(st, aborted) ==
  LET shown == IF ~aborted THEN NotifyError(st) ELSE st
  IN UpdateStates(UpdateMessage(shown, [isActive |-> 0]), [loading |-> FALSE])

\* ----------------------------------------------------------- Chat.onSubmit
Ctxs ==
  [model : {"claude"}, temperature : {1}, maxTokens : {0, 4096},
   systemMessage : {Undefined, Str(<<"sys">>)}, toolsEnabled : BOOLEAN]

ListedTools ==
  {NoTools, Listed(<<>>),
   Listed([i \in 1..Len(HostToolNames) |-> McpTool(HostToolNames[i])])}

OldMessage == [id |-> "m0", isActive |-> 0, reply |-> <<"old">>]
NewMessage == [id |-> "m1", isActive |-> 1, reply |-> <<>>]

Init ==
  /\ TMIdle
  /\ ctx \in Ctxs
  /\ listed \in ListedTools
  /\ prompt \in [kind : {"string", "mcp"}, empty : BOOLEAN, retry : BOOLEAN]
  /\ pc = "idle"
  /\ svc = NoService
  /\ store = [EmptyStore EXCEPT
                !.message = IF prompt.retry THEN OldMessage ELSE NoKeys]
  /\ cnt = NoCounts
  /\ payload = NoPayload
  /\ hist = NoHist
  /\ AuxIdle

\* the messages handed to chat() (2026-2043)
TurnMessages ==
  <<[role |-> "user",
     content |-> IF prompt.kind = "string" THEN Str(<<"<b>", "hi", "</b>">>)
                 ELSE Str(<<>>)]>>
  \o (IF prompt.kind = "mcp"
        THEN <<[role |-> "user",
                content |-> Arr(<<[type |-> "text", text |-> <<"p">>]>>)]>>
        ELSE <<>>)

\* the abort test of line 1815, then the updateMessage call of 1819
Check1 ==
  IF svc.aborted
    THEN /\ pc' = "done"
         /\ hist' = [hist EXCEPT !.cancelSeen = "check1"]
    ELSE /\ pc' = "updating"
         /\ hist' = hist

\* after the message is at hand: convert an MCP prompt, or go on to line 1815
AfterMessage ==
  IF prompt.kind = "mcp"
    THEN pc' = "converting" /\ hist' = hist
    ELSE Check1

\* 1659-1736: createService, the empty-prompt guards, createChat / updateChat
Submit ==
  /\ pc = "idle"
  /\ svc' = [NoService EXCEPT !.exists = TRUE]
  /\ pc' = IF prompt.empty THEN "done" ELSE "openChat"
  /\ UNCHANGED <<auxVars, tmVars, ctx, listed, prompt, store, cnt, payload, hist>>

\* 1737-1752: loading is set, the message is looked up or its insert begins
ChatReady ==
  /\ pc = "openChat"
  /\ store' = UpdateStates(store, [loading |-> TRUE])
  /\ IF prompt.retry THEN AfterMessage
     ELSE pc' = "creating" /\ hist' = hist
  /\ UNCHANGED <<auxVars, tmVars, ctx, listed, prompt, svc, cnt, payload>>

\* createMessage has written the row and added the message with isActive 1
MessageCreated ==
  /\ pc = "creating"
  /\ store' = CreateMessage(store, NewMessage)
  /\ AfterMessage
  /\ UNCHANGED <<auxVars, tmVars, ctx, listed, prompt, svc, cnt, payload>>

\* 1763-1813: the MCP prompt conversion settles
PromptConverted ==
  /\ pc = "converting"
  /\ \E outcome \in {"ok", "unsupported", "error"} :
       CASE outcome = "ok" -> Check1 /\ store' = store
         [] outcome = "unsupported" ->
              /\ store' = NotifyError(store)
              /\ pc' = "done"
              /\ hist' = hist
         [] outcome = "error" ->
              /\ store' = store
              /\ pc' = "done"
              /\ hist' = [hist EXCEPT !.thrown = TRUE]
  /\ UNCHANGED <<auxVars, tmVars, ctx, listed, prompt, svc, cnt, payload>>

\* 1819-1842: updateMessage has reset the message, listChatCollections begins
MessageUpdated ==
  /\ pc = "updating"
  /\ store' = UpdateMessage(store, [reply |-> <<>>, isActive |-> 1])
  /\ pc' = "knowledge"
  /\ UNCHANGED <<auxVars, tmVars, ctx, listed, prompt, svc, cnt, payload, hist>>

\* 1883-2043: the second abort test, then the observers are registered and
\* chat() is called
KnowledgeListed ==
  /\ pc = "knowledge"
  /\ IF svc.aborted
       THEN /\ pc' = "done"
            /\ hist' = [hist EXCEPT !.cancelSeen = "check2"]
            /\ svc' = svc
       ELSE /\ pc' = "chat"
            /\ hist' = hist
            /\ svc' = [svc EXCEPT !.state = "Sending", !.messages = TurnMessages]
  /\ UNCHANGED <<auxVars, tmVars, ctx, listed, prompt, store, cnt, payload>>

Terminal == {"Completed", "Failed", "Aborted"}

Events == cnt.complete + cnt.error + cnt.reading + cnt.toolCalls

Loading == "loading" \in DOMAIN store.states /\ store.states.loading

\* the stop button, offered while the chat is loading:
\* chatService.current?.abort() (2149-2151)
Abort ==
  /\ svc.exists
  /\ Loading
  /\ pc \notin {"idle", "done"}
  /\ svc.state \notin Terminal
  /\ ~svc.aborted
  /\ svc' = [svc EXCEPT !.aborted = TRUE]
  /\ hist' = [hist EXCEPT !.abortEvents = Events, !.abortHttp = cnt.http]
  /\ UNCHANGED <<auxVars, tmVars, ctx, listed, prompt, pc, store, cnt, payload>>

\* chat() has returned (2026-2044)
ChatReturned ==
  /\ pc = "chat"
  /\ svc.state \in Terminal
  /\ pc' = "done"
  /\ UNCHANGED <<auxVars, tmVars, ctx, listed, prompt, svc, store, cnt, payload, hist>>


\* ------------------------------------------------------------ chat engine
\* the configured maximum number of tool rounds of one chat() call
MaxRounds == 2

EngActive == pc = "chat" /\ svc.state \in {"Sending", "Streaming", "ToolPending"}

ToolMessage(m) == [role |-> m.role, content |-> Arr(m.content)]

\* makeRequest: the payload is built and the HTTP request issued
EngSend ==
  /\ EngActive /\ svc.state = "Sending" /\ ~svc.aborted
  /\ payload' = MakePayload(ctx, AnthropicMakeMessages(<<>>, svc.messages),
                            listed, svc.usedToolNames)
  /\ cnt' = [cnt EXCEPT !.http = cnt.http + 1]
  /\ svc' = [svc EXCEPT !.state = "Streaming"]
  /\ UNCHANGED <<auxVars, tmVars, ctx, listed, prompt, pc, store, hist>>

\* TextDelta: onReading is invoked for the delta
EngDelta ==
  /\ EngActive /\ svc.state = "Streaming" /\ ~svc.aborted
  /\ svc.deltas < MaxDeltas
  /\ store' = OnReading(store, <<"tok">>)
  /\ cnt' = [cnt EXCEPT !.reading = cnt.reading + 1]
  /\ svc' = [svc EXCEPT !.deltas = svc.deltas + 1, !.reply = svc.reply \o <<"tok">>]
  /\ UNCHANGED <<auxVars, tmVars, ctx, listed, prompt, pc, payload, hist>>

\* ToolCallComplete: the model asks for one of the offered tools
EngToolCall ==
  /\ EngActive /\ svc.state = "Streaming" /\ ~svc.aborted
  /\ "tools" \in DOMAIN payload
  /\ svc.round < MaxRounds
  /\ \E k \in 1..Len(payload.tools) :
       /\ store' = OnToolCalls(store, payload.tools[k].name)
       /\ svc' = [svc EXCEPT !.state = "ToolPending",
                             !.pendingTool = payload.tools[k].name]
  /\ cnt' = [cnt EXCEPT !.toolCalls = cnt.toolCalls + 1]
  /\ UNCHANGED <<auxVars, tmVars, ctx, listed, prompt, pc, payload, hist>>

\* the tool host answered: the tool messages are appended to the working list,
\* the tool name is recorded as used, and the next round begins
EngToolResult ==
  /\ EngActive /\ svc.state = "ToolPending" /\ ~svc.aborted
  /\ \E result \in {StringResult(<<"ok">>),
                    ObjectResult(TRUE, Str(<<"boom">>), ContentUndefined)} :
       LET t == [id |-> svc.round + 1, name |-> svc.pendingTool, args |-> "none"]
           made == AnthropicMakeToolMessages(t, result, <<>>, svc.reply)
       IN svc' = [svc EXCEPT
                    !.messages = svc.messages
                                 \o [i \in 1..Len(made) |-> ToolMessage(made[i])],
                    !.usedToolNames = svc.usedToolNames \cup {svc.pendingTool},
                    !.round = svc.round + 1,
                    !.pendingTool = Null,
                    !.state = "Sending"]
  /\ UNCHANGED <<auxVars, tmVars, ctx, listed, prompt, pc, store, cnt, payload, hist>>

\* the model asks for a tool again although the round limit is reached: the
\* loop stops and the turn completes
EngRoundLimit ==
  /\ EngActive /\ svc.state = "Streaming" /\ ~svc.aborted
  /\ "tools" \in DOMAIN payload
  /\ svc.round = MaxRounds
  /\ store' = OnChatComplete(store, [content |-> svc.reply, error |-> FALSE])
  /\ cnt' = [cnt EXCEPT !.complete = cnt.complete + 1]
  /\ svc' = [svc EXCEPT !.state = "Completed", !.limited = TRUE]
  /\ UNCHANGED <<auxVars, tmVars, ctx, listed, prompt, pc, payload, hist>>

\* Done: onComplete is invoked with the aggregated content
EngDone ==
  /\ EngActive /\ svc.state = "Streaming" /\ ~svc.aborted
  /\ store' = OnChatComplete(store, [content |-> svc.reply, error |-> FALSE])
  /\ cnt' = [cnt EXCEPT !.complete = cnt.complete + 1]
  /\ svc' = [svc EXCEPT !.state = "Completed"]
  /\ UNCHANGED <<auxVars, tmVars, ctx, listed, prompt, pc, payload, hist>>

\* faulty variant: the error is reported through onError and then through onComplete
EngErrorThenComplete ==
  /\ EngActive /\ ~svc.aborted
  /\ store' = OnChatComplete(OnError(store, FALSE),
                             [content |-> svc.reply, error |-> TRUE])
  /\ cnt' = [cnt EXCEPT !.error = cnt.error + 1, !.complete = cnt.complete + 1]
  /\ svc' = [svc EXCEPT !.state = "Failed"]
  /\ UNCHANGED <<auxVars, tmVars, ctx, listed, prompt, pc, payload, hist>>

\* Error (transport, truncated stream, malformed tool arguments, tool host):
\* onError(err, false) is invoked
EngError ==
  /\ EngActive /\ ~svc.aborted
  /\ store' = OnError(store, FALSE)
  /\ cnt' = [cnt EXCEPT !.error = cnt.error + 1]
  /\ svc' = [svc EXCEPT !.state = "Failed"]
  /\ UNCHANGED <<auxVars, tmVars, ctx, listed, prompt, pc, payload, hist>>

\* the cancellation token is seen at the next check: onError(err, true)
EngAbort ==
  /\ EngActive /\ svc.aborted
  /\ store' = OnError(store, TRUE)
  /\ cnt' = [cnt EXCEPT !.error = cnt.error + 1]
  /\ svc' = [svc EXCEPT !.state = "Aborted"]
  /\ hist' = [hist EXCEPT !.cancelSeen = "engine"]
  /\ UNCHANGED <<auxVars, tmVars, ctx, listed, prompt, pc, payload>>

EngineNext ==
  \/ EngSend
  \/ EngDelta
  \/ EngToolCall
  \/ EngToolResult
  \/ EngRoundLimit
  \/ EngDone
  \/ EngError
  \/ EngAbort

Next ==
  \/ Submit
  \/ ChatReady
  \/ MessageCreated
  \/ PromptConverted
  \/ MessageUpdated
  \/ KnowledgeListed
  \/ Abort
  \/ ChatReturned
  \/ EngSend
  \/ EngDelta
  \/ EngToolCall
  \/ EngToolResult
  \/ EngRoundLimit
  \/ EngDone
  \/ EngError
  \/ EngAbort

Spec == Init /\ [][Next]_vars

\* an engine step that can be taken is eventually taken, and so is the return
\* of chat(): the JavaScript event loop runs every settled continuation
FairSpec == Spec /\ WF_vars(EngineNext) /\ WF_vars(ChatReturned)

\* ------------------------------------------------ makeToolMessages, stepwise
TMInit ==
  /\ adapter \in {"anthropic", "ollama"}
  /\ tool \in [id : ToolIds, name : {ToolName}, args : {"none", "{\"p\":1}"}]
  /\ toolResult \in ToolResults
  /\ content \in {<<>>, <<"thinking">>}
  /\ tmPc = "start"
  /\ converted = <<>>
  /\ order = <<>>
  /\ tmResult = <<>>
  /\ ChatIdle
  /\ AuxIdle

IsLink(i) == ContentParts(toolResult)[i].type = "resource_link"

Pending(i) == converted[i] = NoBlock

\* Conversions that need no I/O settle in array order before any resource read
\* returns; resource reads return in any order.
MayComplete(i) ==
  /\ Pending(i)
  /\ IF IsLink(i)
       THEN \A j \in 1..Len(converted) : ~IsLink(j) => ~Pending(j)
       ELSE \A j \in 1..(i - 1) : ~IsLink(j) => ~Pending(j)

\* convertedBlocks as the adapter sees it after Promise.all:
\* Anthropic pushes on completion, Ollama takes Promise.all's array
ConvertedBlocks ==
  IF adapter = "anthropic"
    THEN [k \in 1..Len(order) |-> converted[order[k]]]
    ELSE converted

\* entry up to the first await: the string / isError branches need no await
TMStart ==
  /\ tmPc = "start"
  /\ IF NeedsConversion(toolResult)
       THEN /\ tmPc' = "convert"
            /\ converted' = [i \in 1..Len(ContentParts(toolResult)) |-> NoBlock]
       ELSE /\ tmPc' = "build"
            /\ converted' = converted
  /\ UNCHANGED <<adapter, tool, toolResult, content, order, tmResult, chatVars, auxVars>>

\* one MCPContentBlockConverter.convert call settles; a rejected conversion
\* rejects Promise.all and with it the makeToolMessages call
TMConvert(i) ==
  /\ tmPc = "convert"
  /\ i \in 1..Len(converted)
  /\ MayComplete(i)
  /\ \E outcome \in LinkOutcomes :
       /\ (~IsLink(i)) => outcome = "text"
       /\ IF Convert(ContentParts(toolResult)[i], outcome) = Rejected
            THEN /\ tmPc' = "rejected"
                 /\ UNCHANGED <<converted, order>>
            ELSE /\ tmPc' = tmPc
                 /\ converted' = [converted EXCEPT
                      ![i] = Convert(ContentParts(toolResult)[i], outcome)]
                 /\ order' = Append(order, i)
  /\ UNCHANGED <<adapter, tool, toolResult, content, tmResult, chatVars, auxVars>>

\* Promise.all has settled (or was not needed): build and return the messages
TMBuild ==
  /\ \/ tmPc = "build"
     \/ tmPc = "convert" /\ \A i \in 1..Len(converted) : ~Pending(i)
  /\ tmResult' = IF adapter = "anthropic"
                   THEN AnthropicMakeToolMessages(tool, toolResult,
                                                  ConvertedBlocks, content)
                   ELSE OllamaMakeToolMessages(tool, toolResult, ConvertedBlocks)
  /\ tmPc' = "done"
  /\ UNCHANGED <<adapter, tool, toolResult, content, converted, order, chatVars, auxVars>>

TMNext ==
  \/ TMStart
  \/ \E i \in 1..MaxBlocks : TMConvert(i)
  \/ TMBuild

SpecTool == TMInit /\ [][TMNext]_vars

\* ===================================================== makeToolMessages claims
TMDone == tmPc = "done"

\* the tool_result entries of the Anthropic user message
AnthropicResultIds ==
  {tmResult[2].content[k].tool_use_id :
     k \in {j \in 1..Len(tmResult[2].content) :
              tmResult[2].content[j].type = "tool_result"}}

\* the ids of the tool calls of the assistant message
AssistantCallIds ==
  IF adapter = "anthropic"
    THEN {tmResult[1].content[k].id :
            k \in {j \in 1..Len(tmResult[1].content) :
                     tmResult[1].content[j].type = "tool_use"}}
    ELSE {tmResult[1].tool_calls[k].id : k \in 1..Len(tmResult[1].tool_calls)}

ToolResultIds ==
  IF adapter = "anthropic" THEN AnthropicResultIds
  ELSE IF tmResult[2].role = "tool" THEN {tmResult[2].tool_call_id} ELSE {}

\* C1: whatever the tool-result value, the returned messages hold a tool-result
\* entry whose id equals the id of the assistant message's tool call, and both
\* equal tool.id.
C1_IdRoundTrips ==
  TMDone => /\ AssistantCallIds = {tool.id}
            /\ ToolResultIds = {tool.id}

NonErrorArray ==
  /\ toolResult.kind = "object"
  /\ ~toolResult.isError
  /\ toolResult.content.ck = "array"

SomeNonText == \E i \in 1..Len(converted) : converted[i].type # "text"

\* C2: Anthropic, non-error result whose blocks (one or several) all convert to
\* text: exactly two messages, assistant with the tool_use block, then a user
\* message whose content is exactly one tool_result block with a string content.
C2_AnthropicTextOnly ==
  (TMDone /\ adapter = "anthropic" /\ NonErrorArray
     /\ Len(converted) >= 1 /\ ~SomeNonText) =>
     /\ Len(tmResult) = 2
     /\ tmResult[1].role = "assistant"
     /\ AssistantCallIds = {tool.id}
     /\ tmResult[2].role = "user"
     /\ Len(tmResult[2].content) = 1
     /\ tmResult[2].content[1].type = "tool_result"
     /\ tmResult[2].content[1].content.ty = "string"

C2_Witness ==
  /\ TMDone /\ adapter = "anthropic" /\ NonErrorArray
  /\ Len(converted) = 2 /\ ~SomeNonText
  /\ \E i \in 1..2 : IsLink(i)

Perms(n) ==
  {p \in [1..n -> 1..n] : \A i, j \in 1..n : p[i] = p[j] => i = j}

\* C3: Anthropic, non-error result with at least one block converting to a
\* non-text type: still exactly two messages, and the user message's content is
\* one placeholder tool_result carrying the redirect note followed by one legacy
\* content part per converted block, all in that same user message.
C3_AnthropicRichInline ==
  (TMDone /\ adapter = "anthropic" /\ NonErrorArray /\ SomeNonText) =>
     /\ Len(tmResult) = 2
     /\ tmResult[1].role = "assistant"
     /\ tmResult[2].role = "user"
     /\ Len(tmResult[2].content) = 1 + Len(converted)
     /\ tmResult[2].content[1] = ToolResultPart(tool.id, Str(AnthropicNote))
     /\ \E p \in Perms(Len(converted)) :
          \A k \in 1..Len(converted) :
            tmResult[2].content[1 + k] =
              ContentBlockToLegacyMessageContent(converted[p[k]])

C3_Witness ==
  /\ TMDone /\ adapter = "anthropic" /\ NonErrorArray
  /\ Len(converted) = 2
  /\ converted[1].type = "image" /\ converted[2].type = "text"

\* C4: Ollama returns three messages (assistant tool_calls, tool message holding
\* the placeholder note, supplemental user message with every converted block)
\* exactly when the non-error result has a block converting to a non-text type;
\* every other result gives exactly two messages (assistant, tool).
C4_OllamaSupplementIff ==
  (TMDone /\ adapter = "ollama") =>
     /\ Len(tmResult) \in {2, 3}
     /\ tmResult[1].role = "assistant"
     /\ tmResult[2].role = "tool"
     /\ (Len(tmResult) = 3) <=> (NonErrorArray /\ SomeNonText)
     /\ (Len(tmResult) = 3) =>
          /\ tmResult[2].content = <<TextPart(Str(OllamaNote))>>
          /\ tmResult[3].role = "user"
          /\ tmResult[3].content =
               [i \in 1..Len(converted) |->
                  ContentBlockToLegacyMessageContent(converted[i])]

C4_Witness ==
  /\ TMDone /\ adapter = "ollama" /\ Len(tmResult) = 3
  /\ Len(converted) = 2
  /\ converted[1].type = "text" /\ converted[2].type = "image"

OfferedNames ==
  IF "tools" \in DOMAIN payload
    THEN {payload.tools[k].name : k \in 1..Len(payload.tools)} ELSE {}

RoundsBounded ==
  /\ svc.round <= MaxRounds
  /\ cnt.http <= MaxRounds + 1
  /\ cnt.toolCalls <= MaxRounds

\* read right after the request was built, before the set grows again
UsedNotOffered ==
  svc.state = "Streaming" => OfferedNames \cap svc.usedToolNames = {}

TerminalReported ==
  /\ svc.state \in Terminal
  /\ cnt.complete + cnt.error = 1

CallbackCounts ==
  /\ cnt.complete + cnt.error <= 1
  /\ svc.state = "Completed" => (cnt.complete = 1 /\ cnt.error = 0)
  /\ svc.state \in {"Failed", "Aborted"} => (cnt.error = 1 /\ cnt.complete = 0)
  /\ (pc = "done" /\ svc.state # "Idle") => cnt.complete + cnt.error = 1

QuietAfterError ==
  cnt.error > 0 => cnt' = cnt

C8_AbortBeforeEvents ==
  (hist.abortEvents = 0 /\ pc = "done") =>
     /\ cnt.complete = 0
     /\ cnt.reading = 0
     /\ cnt.http = hist.abortHttp
     /\ svc.state = "Aborted"
     /\ cnt.error = 1

\* C9: when the turn is cancelled, wherever the cancellation is observed once
\* the turn's message exists, no error notification is shown and the message
\* is finalized as inactive (isActive = 0).
C9_CancelFinalizesMessage ==
  (pc = "done" /\ hist.cancelSeen # "none" /\ "id" \in DOMAIN store.message) =>
     /\ store.notifications = 0
     /\ store.message.isActive = 0

UnusedListedNames ==
  IF listed.isNull THEN {}
  ELSE {listed.tools[i].name : i \in 1..Len(listed.tools)} \ svc.usedToolNames

\* C10: the payload holds a tools list iff tool use is enabled and some listed
\* tool has a name outside usedToolNames; the list then holds exactly the
\* unused tools, and tool_choice is present exactly when tools is.
C10_ToolsIffUnused ==
  svc.state = "Streaming" =>
     /\ ("tools" \in DOMAIN payload) <=>
          (ctx.toolsEnabled /\ UnusedListedNames # {})
     /\ ("tools" \in DOMAIN payload) =>
          /\ OfferedNames = UnusedListedNames
          /\ Len(payload.tools) = Cardinality(UnusedListedNames)
     /\ ("tool_choice" \in DOMAIN payload) <=> ("tools" \in DOMAIN payload)

C10_Witness ==
  /\ svc.state = "Streaming"
  /\ "tools" \in DOMAIN payload
  /\ Cardinality(svc.usedToolNames) = 1
  /\ Len(payload.tools) = Len(HostToolNames) - 1

\* ===================================================== convertPromptContent
PromptTokens == {"hi", "<b>"} \cup LocalImgTokens \cup RemoteImgTokens

PromptStrings == UNION { [1..n -> PromptTokens] : n \in 0..MaxPrompt }

TextItem(d) == [type |-> "text", dataType |-> "", mimeType |-> "", data |-> d]

\* item.data of an image, as the pieces item.data.split(',') yields
ImageItem(tok) ==
  IF tok \in LocalImgTokens
    THEN [type |-> "image", dataType |-> "base64", mimeType |-> "image/png",
          data |-> <<"data:image/png;base64", "AAA">>]
    ELSE [type |-> "image", dataType |-> "URL", mimeType |-> "image/png",
          data |-> <<"http://host/", tok>>]

RECURSIVE SplitByImg(_)
\* splitByImg: the runs of text between the images, and the images, in order
SplitByImg(s) ==
  IF s = <<>> THEN <<>>
  ELSE IF IsImgToken(Head(s))
    THEN <<ImageItem(Head(s))>> \o SplitByImg(Tail(s))
  ELSE LET rest == SplitByImg(Tail(s))
       IN IF rest # <<>> /\ rest[1].type = "text"
            THEN <<TextItem(<<Head(s)>> \o rest[1].data)>> \o Tail(rest)
            ELSE <<TextItem(<<Head(s)>>)>> \o rest

IsLocalImage(item) == item.type = "image" /\ item.dataType = "base64"
IsRemoteImage(item) == item.type = "image" /\ item.dataType = "URL"

\* the indices of the items that satisfy Test, in order
Indices(items, Test(_)) ==
  SelectSeq([i \in 1..Len(items) |-> i], LAMBDA i : Test(items[i]))

\* the base64 text a successful fetch of a remote image yields
Base64Of(item) == <<"b64", item.data[2]>>

\* Ollama lines 47-54: data.split(',')[1], or the data itself without a comma
OllamaLocalImage(item) ==
  IF Len(item.data) < 2 THEN item.data ELSE <<item.data[2]>>

\* Ollama lines 58-82: the images key of the result
OllamaImages(localImages, hasRemote, valid) ==
  IF hasRemote
    THEN IF Len(valid) > 0 THEN [images |-> localImages \o valid] ELSE NoKeys
    ELSE IF Len(localImages) > 0 THEN [images |-> localImages] ELSE NoKeys

\* Ollama convertPromptContent (30-88); fetched[i] tells how the fetch of
\* item i ended
OllamaConvertPromptContent(str, vision, fetched) ==
  IF vision
    THEN LET items == SplitByImg(str)
             textIdx == Indices(items, LAMBDA it : it.type = "text")
             textContent == Join([k \in 1..Len(textIdx) |-> items[textIdx[k]].data],
                                 <<"\n">>)
             localIdx == Indices(items, IsLocalImage)
             localImages == [k \in 1..Len(localIdx) |->
                               OllamaLocalImage(items[localIdx[k]])]
             remoteIdx == Indices(items, IsRemoteImage)
             validIdx == SelectSeq(remoteIdx, LAMBDA i : fetched[i] = "ok")
             valid == [k \in 1..Len(validIdx) |-> Base64Of(items[validIdx[k]])]
         IN [content |-> Str(textContent)]
            @@ OllamaImages(localImages, Len(remoteIdx) > 0, valid)
    ELSE [content |-> StripHtmlTags(Str(str))]

\* getBase64(url): the encoded body, or nothing when its failure is swallowed
GetBase64(item, outcome) == IF outcome = "ok" THEN Base64Of(item) ELSE <<>>

\* one item of Anthropic's promises (216-240)
AnthropicPromptPart(item, outcome) ==
  IF item.type = "image"
    THEN [type |-> "image",
          source |-> [type |-> "base64", media_type |-> item.mimeType,
                      data |-> IF item.dataType = "URL"
                                 THEN GetBase64(item, outcome)
                               ELSE IF Len(item.data) < 2 THEN <<"undefined">>
                               ELSE <<item.data[2]>>]]
    ELSE [type |-> "text", text |-> item.data]

\* Anthropic convertPromptContent (211-248): Promise.all rejects as soon as one
\* of its promises does
AnthropicConvertPromptContent(str, vision, fetched) ==
  IF vision
    THEN LET items == SplitByImg(str)
         IN [rejected |-> \E i \in 1..Len(items) :
                            IsRemoteImage(items[i]) /\ fetched[i] = "reject",
             value |-> Arr([i \in 1..Len(items) |->
                              AnthropicPromptPart(items[i], fetched[i])])]
    ELSE [rejected |-> FALSE, value |-> StripHtmlTags(Str(str))]

\* how the fetch of one remote image can end, as the adapter sees it: Ollama
\* catches the failure itself; Anthropic awaits getBase64, which on a failed
\* fetch either rejects or swallows the failure
FetchResults(a) ==
  IF a = "ollama" THEN {"ok", "fail"} ELSE {"ok", "reject", "blank"}

CPInit ==
  /\ cpAdapter \in {"anthropic", "ollama"}
  /\ cpVision \in BOOLEAN
  /\ cpContent \in PromptStrings
  /\ cpPc = "start"
  /\ cpFetch = <<>>
  /\ cpResult = NoKeys
  /\ TMIdle /\ ChatIdle /\ MMIdle /\ RQIdle /\ TwoIdle /\ StoresIdle

notCp == <<tmVars, chatVars, mmVars, rqVars, twoVars, csVars, apVars>>

\* entry: a text-only model returns at once; a vision model splits the prompt
\* and starts one fetch per remote image
CPStart ==
  /\ cpPc = "start"
  /\ IF cpVision
       THEN /\ cpFetch' = [i \in 1..Len(SplitByImg(cpContent)) |->
                             IF IsRemoteImage(SplitByImg(cpContent)[i])
                               THEN "pending" ELSE "none"]
            /\ cpPc' = "fetching"
            /\ cpResult' = cpResult
       ELSE /\ cpFetch' = cpFetch
            /\ cpPc' = "done"
            /\ cpResult' =
                 IF cpAdapter = "ollama"
                   THEN OllamaConvertPromptContent(cpContent, FALSE, <<>>)
                   ELSE [content |->
                           AnthropicConvertPromptContent(cpContent, FALSE, <<>>).value]
  /\ UNCHANGED <<cpAdapter, cpVision, cpContent, notCp>>

\* the fetch of remote image i settles
CPFetch(i) ==
  /\ cpPc = "fetching"
  /\ i \in 1..Len(cpFetch)
  /\ cpFetch[i] = "pending"
  /\ \E r \in FetchResults(cpAdapter) :
       /\ cpFetch' = [cpFetch EXCEPT ![i] = r]
       /\ cpPc' = IF r = "reject" THEN "rejected" ELSE cpPc
  /\ UNCHANGED <<cpAdapter, cpVision, cpContent, cpResult, notCp>>

\* Promise.all has settled: the content is returned
CPReturn ==
  /\ cpPc = "fetching"
  /\ \A i \in 1..Len(cpFetch) : cpFetch[i] # "pending"
  /\ cpResult' =
       IF cpAdapter = "ollama"
         THEN OllamaConvertPromptContent(cpContent, TRUE, cpFetch)
         ELSE [content |->
                 AnthropicConvertPromptContent(cpContent, TRUE, cpFetch).value]
  /\ cpPc' = "done"
  /\ UNCHANGED <<cpAdapter, cpVision, cpContent, cpFetch, notCp>>

CPNext ==
  \/ CPStart
  \/ \E i \in 1..MaxPrompt : CPFetch(i)
  \/ CPReturn

SpecPrompt == CPInit /\ [][CPNext]_vars

\* ============================================== convertPromptContent claims
Range(seq) == {seq[i] : i \in 1..Len(seq)}

CPItems == SplitByImg(cpContent)

CPImages == IF "images" \in DOMAIN cpResult THEN cpResult.images ELSE <<>>

CPTexts ==
  LET idx == Indices(CPItems, LAMBDA it : it.type = "text")
  IN [k \in 1..Len(idx) |-> CPItems[idx[k]].data]

\* C13: Ollama, vision model: a remote image whose fetch failed is the only
\* thing dropped; whatever the mix of local and remote images and of fetch
\* outcomes (all fetches failing included), the result's images hold every
\* local image and every remote image whose fetch succeeded, and the text
\* content is unaffected.
C13_OllamaDropsOnlyFailedFetch ==
  (cpPc = "done" /\ cpAdapter = "ollama" /\ cpVision) =>
     /\ \A i \in 1..Len(CPItems) :
          IsLocalImage(CPItems[i]) =>
            OllamaLocalImage(CPItems[i]) \in Range(CPImages)
     /\ \A i \in 1..Len(CPItems) :
          (IsRemoteImage(CPItems[i]) /\ cpFetch[i] = "ok") =>
            Base64Of(CPItems[i]) \in Range(CPImages)
     /\ cpResult.content = Str(Join(CPTexts, <<"\n">>))

\* C14: Anthropic, vision model: when the fetch of one remote image fails the
\* call still returns content holding the text parts and the other images; a
\* failed fetch never makes the whole conversion fail.
C14_AnthropicFetchFailureLocal ==
  (cpAdapter = "anthropic" /\ cpVision) =>
     /\ cpPc # "rejected"
     /\ cpPc = "done" =>
          /\ cpResult.content.ty = "array"
          /\ \A i \in 1..Len(CPItems) :
               CPItems[i].type = "text" =>
                 [type |-> "text", text |-> CPItems[i].data]
                   \in Range(cpResult.content.parts)
          /\ \A i \in 1..Len(CPItems) :
               (IsRemoteImage(CPItems[i]) /\ cpFetch[i] = "ok") =>
                 AnthropicPromptPart(CPItems[i], "ok")
                   \in Range(cpResult.content.parts)

\* ============================================================ makeMessages
\* bound: longest list of new (or base) messages
MaxMsgs == 2

\* a content part: type, text, image_url.url, and the reference of its images
\* array (0: the part has no images field)
Part(type, text, url, images) ==
  [type |-> type, text |-> text, url |-> url, images |-> images]

\* image strings, as tokens: the scheme part, then the rest
DataUrl == <<"data:image/png;base64", "AAA">>
BrokenDataUrl == <<"data:broken">>
HttpUrl(n) == <<"http://host/", n>>
BareBase64 == <<"BBB">>

StartsWithData(image) ==
  image # <<>> /\ image[1] \in {"data:image/png;base64", "data:broken"}

\* image.startsWith('http:') || startsWith('https:') || startsWith('blob:')
IsFetchable(image) ==
  image # <<>> /\ image[1] \in {"http://host/", "https://host/", "blob:"}

\* images[index].split(',')[1]; nothing when there is no comma
AfterComma(image) == IF Len(image) >= 2 THEN <<image[2]>> ELSE <<>>

\* btoa of the fetched bytes
Btoa(image) == <<"b64", image[2]>>

\* the only image array owned by the input, and its reference
InputRef == 1
InputImages == <<BareBase64, HttpUrl("3")>>

\* prior turns of the context
Histories ==
  { <<>>,
    <<[prompt |-> Str(<<"p1">>), reply |-> Str(<<"r1">>),
       structuredPrompts |-> <<>>]>>,
    <<[prompt |-> Str(<<"p1">>), reply |-> Str(<<"r1">>),
       structuredPrompts |-> <<>>],
      [prompt |-> Str(<<"/summarize">>), reply |-> Str(<<"r2">>),
       structuredPrompts |->
         JsonStringify(<<[role |-> "user", content |-> Str(<<"s1">>)],
                         [role |-> "assistant", content |-> Str(<<"s2">>)]>>)]>>,
    \* an MCP prompt turn whose row kept the '[]' written by createMessage
    <<[prompt |-> Str(<<"/summarize">>), reply |-> Str(<<>>),
       structuredPrompts |-> JsonStringify(<<>>)],
      [prompt |-> Str(<<"p2">>), reply |-> Str(<<"r2">>),
       structuredPrompts |-> <<>>]>> }

ToolCalls ==
  <<[id |-> "call_1", type |-> "function",
     function |-> [arguments |-> "none", name |-> ToolName]]>>

\* new messages handed to Anthropic makeMessages
AnthropicNewMessages ==
  { [role |-> "user", content |-> Str(<<"<b>", "hi", "</b>">>)],
    [role |-> "user", content |-> Str(<<"hi", "img:url1">>)],
    [role |-> "user",
     content |-> Arr(<<Part("text", <<"a">>, <<>>, 0),
                       Part("audio", <<>>, <<>>, 0),
                       Part("image_url", <<>>, HttpUrl("1"), 0)>>)],
    [role |-> "user",
     content |-> Arr(<<Part("tool_result", <<>>, <<>>, 0),
                       Part("text", <<"b">>, <<>>, 0)>>)],
    [role |-> "assistant", content |-> Undefined, tool_calls |-> ToolCalls],
    [role |-> "tool", content |-> Arr(<<Part("text", <<"a">>, <<>>, 0)>>),
     name |-> ToolName, tool_call_id |-> "call_1"],
    [role |-> "user", content |-> Undefined],
    [role |-> "assistant", content |-> Str(<<"ok">>)] }

\* messages the base (OpenAI-style) conversion hands to the Ollama and
\* DeepSeek adapters: string or content-part array, images under image_url.url
BaseMessages ==
  { [role |-> "user", content |-> Str(<<"hi">>)],
    [role |-> "assistant", content |-> Str(<<"ok">>)],
    [role |-> "user",
     content |-> Arr(<<Part("text", <<"a">>, <<>>, 0),
                       Part("image_url", <<>>, DataUrl, 0),
                       Part("text", <<"b">>, <<>>, 0)>>)],
    [role |-> "user",
     content |-> Arr(<<Part("text", <<"a">>, <<>>, 0),
                       Part("image_url", <<>>, HttpUrl("1"), 0)>>)],
    [role |-> "user",
     content |-> Arr(<<Part("image", <<>>, <<>>, InputRef),
                       Part("image_url", <<>>, BrokenDataUrl, 0)>>)],
    [role |-> "assistant", content |-> Undefined, tool_calls |-> ToolCalls],
    [role |-> "tool", content |-> Arr(<<Part("text", <<"a">>, <<>>, 0)>>),
     name |-> ToolName, tool_call_id |-> "call_1"] }

MessageLists(S) == UNION { [1..n -> S] : n \in 0..MaxMsgs }

\* ------------------------------------------------ DeepSeek makeMessages
\* lines 38-53: string kept, array joined, anything else dropped
DeepSeekFormat(msg) ==
  IF msg.content.ty = "string" THEN <<msg>>
  ELSE IF msg.content.ty = "array"
    THEN <<[content |->
              Str(Join([i \in 1..Len(msg.content.parts) |->
                          msg.content.parts[i].text], <<"\n">>))] @@ msg>>
  ELSE <<>>

RECURSIVE Concat(_)
Concat(seqs) == IF seqs = <<>> THEN <<>> ELSE Head(seqs) \o Concat(Tail(seqs))

\* Array.prototype.flatMap with a callback that returns an array
FlatMap(seq, F(_)) == Concat([i \in 1..Len(seq) |-> F(seq[i])])

DeepSeekMakeMessages(base) == FlatMap(base, DeepSeekFormat)

\* -------------------------------------------------- Ollama makeMessages
\* lines 206-212: the images of one message, copied into a new array
OllamaImagesOf(msg, h) ==
  FlatMap(msg.content.parts,
          LAMBDA item : IF item.url # <<>> THEN <<item.url>>
                        ELSE IF item.images # 0 THEN h[item.images]
                        ELSE <<>>)

\* lines 216-244, the part of the callback that runs before its first await:
\* a data: URL is cut, a fetchable one waits for its fetch, the rest is blanked
OllamaImageSync(image) ==
  IF StartsWithData(image) THEN AfterComma(image)
  ELSE IF IsFetchable(image) THEN image
  ELSE <<>>

\* faulty variant: the images array is the array of the input, not a copy
OllamaTargetAliased(m) == InputRef

\* the reference of the `images` array of message m: a new array
OllamaTarget(m) == InputRef + m

\* faulty variant: blanked images are kept
KeepImagesUnfiltered(images) == images

\* images.filter(Boolean)
KeepImages(images) == SelectSeq(images, LAMBDA image : image # <<>>)

ImageArray(images) == [ty |-> "array", items |-> images]

\* lines 202-204 and 249-254: the message pushed for an array content
OllamaProcessed(msg, vision, images) ==
  LET textParts == SelectSeq(msg.content.parts, LAMBDA item : item.type = "text")
      texts == [i \in 1..Len(textParts) |-> textParts[i].text]
  IN [content |-> Str(Join(texts, <<"\n\n\n">>)),
      images |-> IF vision THEN ImageArray(KeepImages(images)) ELSE Undefined]
     @@ msg

IsStringMsg(msg) == msg.content.ty = "string"
IsArrayMsg(msg) == msg.content.ty = "array"

\* the messages pushed before the first callback suspends: every string
\* message, and every array message when vision is off (no await on that path)
OllamaPushedAtOnce(base, vision, h) ==
  FlatMap([i \in 1..Len(base) |-> i],
          LAMBDA i : IF IsStringMsg(base[i]) THEN <<base[i]>>
                     ELSE IF IsArrayMsg(base[i]) /\ ~vision
                       THEN <<OllamaProcessed(base[i], FALSE,
                                              OllamaImagesOf(base[i], h))>>
                     ELSE <<>>)

\* --------------------------------------------------------- the three runs
MMInit ==
  /\ mmAdapter \in {"anthropic", "ollama", "deepseek"}
  /\ mmVision \in BOOLEAN
  /\ mmHistory \in (IF mmAdapter = "anthropic" THEN Histories ELSE {<<>>})
  /\ mmMessages \in MessageLists(IF mmAdapter = "anthropic"
                                   THEN AnthropicNewMessages ELSE BaseMessages)
  /\ mmPc = "start"
  /\ mmTask = [m \in 1..Len(mmMessages) |-> "todo"]
  /\ heap = <<InputImages>> \o [m \in 1..Len(mmMessages) |-> <<>>]
  /\ mmOut = <<>>
  /\ TMIdle /\ ChatIdle /\ CPIdle /\ RQIdle /\ TwoIdle /\ StoresIdle

notMm == <<tmVars, chatVars, cpVars, rqVars, twoVars, csVars, apVars>>

\* Anthropic makeMessages: every prompt conversion has settled; one rejected
\* conversion rejects the call
MMAnthropic ==
  /\ mmPc = "start" /\ mmAdapter = "anthropic"
  /\ \E oc \in [1..Len(mmMessages) -> FetchResults("anthropic")] :
       LET conv == [i \in 1..Len(mmMessages) |->
                      IF IsStringMsg(mmMessages[i])
                        THEN AnthropicConvertPromptContent(
                               mmMessages[i].content.s, mmVision,
                               [k \in 1..Len(mmMessages[i].content.s) |-> oc[i]])
                        ELSE [rejected |-> FALSE, value |-> Undefined]]
       IN IF \/ ~CtxParses(mmHistory)
             \/ \E i \in 1..Len(mmMessages) :
                  /\ mmMessages[i].role # "tool"
                  /\ "tool_calls" \notin DOMAIN mmMessages[i]
                  /\ conv[i].rejected
            THEN mmPc' = "rejected" /\ mmOut' = mmOut
            ELSE /\ mmPc' = "done"
                 /\ mmOut' = AnthropicMakeMessagesWith(
                               mmHistory, mmMessages,
                               [i \in 1..Len(mmMessages) |-> conv[i].value])
  /\ UNCHANGED <<mmAdapter, mmVision, mmHistory, mmMessages, mmTask, heap, notMm>>

\* DeepSeek makeMessages, after the base conversion
MMDeepSeek ==
  /\ mmPc = "start" /\ mmAdapter = "deepseek"
  /\ mmOut' = DeepSeekMakeMessages(mmMessages)
  /\ mmPc' = "done"
  /\ UNCHANGED <<mmAdapter, mmVision, mmHistory, mmMessages, mmTask, heap, notMm>>

\* Ollama makeMessages, after the base conversion: result.map runs every
\* callback up to its first await
MMOllamaStart ==
  /\ mmPc = "start" /\ mmAdapter = "ollama"
  /\ mmOut' = OllamaPushedAtOnce(mmMessages, mmVision, heap)
  /\ mmTask' = [m \in 1..Len(mmMessages) |->
                  IF IsArrayMsg(mmMessages[m]) /\ mmVision THEN "waiting"
                  ELSE IF IsStringMsg(mmMessages[m]) \/ IsArrayMsg(mmMessages[m])
                    THEN "pushed"
                  ELSE "skipped"]
  /\ heap' = [r \in 1..Len(heap) |->
                IF \E m \in 1..Len(mmMessages) :
                     /\ OllamaTarget(m) = r
                     /\ IsArrayMsg(mmMessages[m]) /\ mmVision
                  THEN LET m == CHOOSE k \in 1..Len(mmMessages) :
                                  /\ OllamaTarget(k) = r
                                  /\ IsArrayMsg(mmMessages[k]) /\ mmVision
                           imgs == OllamaImagesOf(mmMessages[m], heap)
                       IN [i \in 1..Len(imgs) |-> OllamaImageSync(imgs[i])]
                  ELSE heap[r]]
  /\ mmPc' = "running"
  /\ UNCHANGED <<mmAdapter, mmVision, mmHistory, mmMessages, notMm>>

HasFetch(m) ==
  \E i \in 1..Len(OllamaImagesOf(mmMessages[m], <<InputImages>>)) :
    IsFetchable(OllamaImagesOf(mmMessages[m], <<InputImages>>)[i])

FetchPending(m) ==
  \E i \in 1..Len(heap[OllamaTarget(m)]) : IsFetchable(heap[OllamaTarget(m)][i])

\* the fetch of image i of message m settles (lines 225-241)
MMFetch(m, i) ==
  /\ mmPc = "running"
  /\ m \in 1..Len(mmMessages) /\ mmTask[m] = "waiting"
  /\ i \in 1..Len(heap[OllamaTarget(m)])
  /\ IsFetchable(heap[OllamaTarget(m)][i])
  /\ \E r \in FetchResults("ollama") :
       heap' = [heap EXCEPT ![OllamaTarget(m)][i] =
                  IF r = "ok" THEN Btoa(@) ELSE <<>>]
  /\ UNCHANGED <<mmAdapter, mmVision, mmHistory, mmMessages, mmPc, mmTask,
                 mmOut, notMm>>

\* the Promise.all of message m has settled and the message is pushed
\* (line 249); callbacks that wait for no fetch resume in call order, before
\* any fetch returns
MMPush(m) ==
  /\ mmPc = "running"
  /\ m \in 1..Len(mmMessages) /\ mmTask[m] = "waiting"
  /\ ~FetchPending(m)
  /\ \A k \in 1..Len(mmMessages) :
       (mmTask[k] = "waiting" /\ ~HasFetch(k)) => (HasFetch(m) \/ k >= m)
  /\ mmOut' = Append(mmOut, OllamaProcessed(mmMessages[m], TRUE,
                                            heap[OllamaTarget(m)]))
  /\ mmTask' = [mmTask EXCEPT ![m] = "pushed"]
  /\ UNCHANGED <<mmAdapter, mmVision, mmHistory, mmMessages, mmPc, heap, notMm>>

\* the outer Promise.all has settled: processedMessages is returned
MMReturn ==
  /\ mmPc = "running"
  /\ \A m \in 1..Len(mmMessages) : mmTask[m] # "waiting"
  /\ mmPc' = "done"
  /\ UNCHANGED <<mmAdapter, mmVision, mmHistory, mmMessages, mmTask, heap,
                 mmOut, notMm>>

MMNext ==
  \/ MMAnthropic
  \/ MMDeepSeek
  \/ MMOllamaStart
  \/ \E m \in 1..Len(mmMessages) :
       \E i \in 1..Len(heap[OllamaTarget(m)]) : MMFetch(m, i)
  \/ \E m \in 1..Len(mmMessages) : MMPush(m)
  \/ MMReturn

SpecMessages == MMInit /\ [][MMNext]_vars

\* ======================================================== makeMessages claims
MMDone(a) == mmPc = "done" /\ mmAdapter = a

\* the output message made from new message i (the history comes first)
AnthropicOutOf(i) == mmOut[Len(mmOut) - Len(mmMessages) + i]

\* a tool-result message of the new turn, in either shape the adapters use
IsToolResultMsg(msg) ==
  \/ msg.role = "tool"
  \/ /\ IsArrayMsg(msg)
     /\ \E j \in 1..Len(msg.content.parts) :
          msg.content.parts[j].type = "tool_result"

\* C11: in the list produced by Anthropic makeMessages every message has the
\* role user or assistant; a tool-result message of the new turn is a user
\* message whose content carries a tool_result block.
C11_AnthropicNoToolRole ==
  MMDone("anthropic") =>
     /\ \A k \in 1..Len(mmOut) :
          /\ "role" \in DOMAIN mmOut[k]
          /\ mmOut[k].role \in {"user", "assistant"}
     /\ \A i \in 1..Len(mmMessages) :
          IsToolResultMsg(mmMessages[i]) =>
            /\ AnthropicOutOf(i).content.ty = "array"
            /\ \E j \in 1..Len(AnthropicOutOf(i).content.parts) :
                 AnthropicOutOf(i).content.parts[j].type = "tool_result"

\* C12: every payload built by the Anthropic adapter has a max_tokens field,
\* also when the context's max-tokens setting is unset or zero.
C12_MaxTokensAlways ==
  svc.state = "Streaming" => "max_tokens" \in DOMAIN payload

HasPlainArray(i) ==
  /\ mmMessages[i].role # "tool"
  /\ "tool_calls" \notin DOMAIN mmMessages[i]
  /\ IsArrayMsg(mmMessages[i])

ExpectedAnthropicPart(item) ==
  IF item.type = "text" THEN [type |-> "text", text |-> item.text]
  ELSE IF item.type = "image_url"
    THEN [type |-> "image", source |-> [type |-> "url", url |-> item.url]]
  ELSE [type |-> "text", text |-> <<>>]

\* C15: in Anthropic makeMessages a part the vendor cannot represent (audio or
\* an unknown type) becomes an empty text part; the conversion does not fail,
\* the other parts are converted as usual, and the number and order of the
\* parts is kept.
C15_UnsupportedPartBecomesEmptyText ==
  /\ (mmAdapter = "anthropic"
        /\ \A i \in 1..Len(mmMessages) : ~IsStringMsg(mmMessages[i]))
       => mmPc # "rejected"
  /\ MMDone("anthropic") =>
       \A i \in 1..Len(mmMessages) :
         HasPlainArray(i) =>
           /\ AnthropicOutOf(i).content.ty = "array"
           /\ Len(AnthropicOutOf(i).content.parts)
                = Len(mmMessages[i].content.parts)
           /\ \A j \in 1..Len(mmMessages[i].content.parts) :
                AnthropicOutOf(i).content.parts[j]
                  = ExpectedAnthropicPart(mmMessages[i].content.parts[j])

C15_Witness ==
  /\ MMDone("anthropic")
  /\ \E i \in 1..Len(mmMessages) :
       /\ HasPlainArray(i)
       /\ Len(mmMessages[i].content.parts) = 3
       /\ mmMessages[i].content.parts[2].type = "audio"
       /\ AnthropicOutOf(i).content.parts[2] = [type |-> "text", text |-> <<>>]
       /\ AnthropicOutOf(i).content.parts[3].type = "image"

IsBareBase64(image) ==
  image # <<>> /\ ~StartsWithData(image) /\ ~IsFetchable(image)

\* C17: every message returned by Ollama makeMessages has a string content;
\* with vision enabled its images field is an array of non-empty bare base64
\* strings (no data: prefix, no URL), with vision disabled it has no images.
C17_OllamaStringContentBareImages ==
  MMDone("ollama") =>
     \A k \in 1..Len(mmOut) :
       /\ mmOut[k].content.ty = "string"
       /\ "images" \in DOMAIN mmOut[k] =>
            IF mmVision
              THEN /\ mmOut[k].images.ty = "array"
                   /\ \A j \in 1..Len(mmOut[k].images.items) :
                        IsBareBase64(mmOut[k].images.items[j])
              ELSE mmOut[k].images = Undefined

C17_Witness ==
  /\ MMDone("ollama") /\ mmVision
  /\ \E k \in 1..Len(mmOut) :
       /\ "images" \in DOMAIN mmOut[k]
       /\ mmOut[k].images.items = <<Btoa(HttpUrl("3"))>>
  /\ \E k \in 1..Len(mmOut) :
       /\ "images" \in DOMAIN mmOut[k]
       /\ mmOut[k].images.items = <<<<"AAA">>>>

\* the conversions of messages and of tool results, together
SpecConversions == (MMInit \/ TMInit) /\ [][MMNext \/ TMNext]_vars

InputsKept ==
  /\ mmMessages' = mmMessages
  /\ mmHistory' = mmHistory
  /\ Len(heap) > 0 => heap'[InputRef] = heap[InputRef]
  /\ tool' = tool
  /\ toolResult' = toolResult
  /\ content' = content

\* C20: makeMessages and makeToolMessages of every adapter leave their inputs
\* as they were: the caller's message list, each message and its content and
\* image arrays, the tool, the tool result and the context history.
C20_InputsUnchanged == [][InputsKept]_vars

C20_Witness ==
  /\ MMDone("ollama") /\ mmVision
  /\ heap[InputRef] = InputImages
  /\ \E m \in 1..Len(mmMessages) :
       /\ IsArrayMsg(mmMessages[m])
       /\ OllamaImagesOf(mmMessages[m], heap) = InputImages \o <<BrokenDataUrl>>
       /\ heap[OllamaTarget(m)] = <<<<>>, Btoa(HttpUrl("3")), <<>>>>

\* ============================================ resolver failures (tool results)
FailedLink(i) == IsLink(i) /\ converted[i] = EmptyBlock

LegacyOf(i) == ContentBlockToLegacyMessageContent(converted[i])

\* the returned messages hold the content of every converted block
HoldsEveryBlock ==
  IF adapter = "anthropic"
    THEN IF SomeNonText
           THEN \A i \in 1..Len(converted) :
                  LegacyOf(i) \in Range(tmResult[2].content)
           ELSE tmResult[2].content[1].content
                  = Str(Join([k \in 1..Len(order) |-> converted[order[k]].text],
                             <<"\n\n\n">>))
    ELSE IF SomeNonText
           THEN tmResult[3].content = [i \in 1..Len(converted) |-> LegacyOf(i)]
           ELSE tmResult[2].content = [i \in 1..Len(converted) |-> LegacyOf(i)]

MaxChanges == 2

RECURSIVE TrimStart(_)
TrimStart(s) == IF s # <<>> /\ Head(s) = " " THEN TrimStart(Tail(s)) ELSE s

RECURSIVE TrimEnd(_)
TrimEnd(s) ==
  IF s # <<>> /\ s[Len(s)] = " " THEN TrimEnd(SubSeq(s, 1, Len(s) - 1)) ELSE s

\* String.prototype.trim
Trim(s) == TrimEnd(TrimStart(s))

\* urlJoin(path, base)
UrlJoin(path, base) == base \o <<path>>

ContentType == ("Content-Type" :> <<"application/json">>)

\* faulty variant: the Ollama adapter sends Authorization for every key
TransportAlwaysBearer(a, c) ==
  [url |-> UrlJoin(CASE a = "anthropic" -> "/messages"
                     [] a = "ollama" -> "/api/chat"
                     [] a = "deepseek" -> "/chat/completions",
                   Trim(c.provider.apiBase)),
   headers |-> ContentType
               @@ (IF a = "anthropic"
                     THEN ("anthropic-version" :> <<"2023-06-01">>)
                          @@ ("x-api-key" :> Trim(c.provider.apiKey))
                     ELSE ("Authorization" :>
                             <<"Bearer ">> \o Trim(c.provider.apiKey))),
   isStream |-> c.stream]

\* URL, headers and stream mode, as makeRequest takes them from the context
Transport(a, c) ==
  CASE a = "anthropic" ->
         [url |-> UrlJoin("/messages", Trim(c.provider.apiBase)),
          headers |-> ContentType
                      @@ ("anthropic-version" :> <<"2023-06-01">>)
                      @@ ("x-api-key" :> Trim(c.provider.apiKey)),
          isStream |-> c.stream]
    [] a = "ollama" ->
         [url |-> UrlJoin("/api/chat", Trim(c.provider.apiBase)),
          headers |-> ContentType
                      @@ (IF c.provider.apiKey # <<>> /\ Trim(c.provider.apiKey) # <<>>
                            THEN ("Authorization" :>
                                    <<"Bearer ">> \o Trim(c.provider.apiKey))
                            ELSE NoKeys),
          isStream |-> c.stream]
    [] a = "deepseek" ->
         [url |-> UrlJoin("/chat/completions", Trim(c.provider.apiBase)),
          headers |-> ContentType
                      @@ ("Authorization" :>
                            <<"Bearer ">> \o Trim(c.provider.apiKey)),
          isStream |-> c.stream]

\* what the tool host lists while a request is built
RqListed == Listed(<<McpTool("srv--read")>>)

\* Anthropic makePayload, line 384: read before the messages are converted
AnthropicHead(c) == [model |-> c.model]

\* lines 386-395: read after the conversion
AnthropicMid(c) ==
  [temperature |-> c.temperature, stream |-> TRUE]
  @@ (IF ~IsBlank(c.systemMessage) THEN [system |-> c.systemMessage] ELSE NoKeys)
  @@ (IF c.maxTokens # 0 THEN [max_tokens |-> c.maxTokens] ELSE NoKeys)

\* lines 398-415: after listTools, with max tokens read once more
AnthropicTail(c) ==
  (IF c.maxTokens # 0 THEN [max_tokens |-> c.maxTokens] ELSE NoKeys)
  @@ ToolKeys(c, RqListed, {})

\* makePayload of the OpenAI-style base class: its context fields, read when
\* the call is entered
BaseHead(c) ==
  [model |-> c.model, temperature |-> c.temperature, stream |-> TRUE]
  @@ (IF c.maxTokens # 0 THEN [max_tokens |-> c.maxTokens] ELSE NoKeys)

Providers ==
  { [apiBase |-> <<"https://a/v1", " ">>, apiKey |-> <<" ", "k1", " ">>],
    [apiBase |-> <<"http://b">>, apiKey |-> <<" ">>],
    [apiBase |-> <<"http://c">>, apiKey |-> <<>>] }

RqCtxs ==
  [model : {"m1"}, temperature : {1}, maxTokens : {0, 4096},
   systemMessage : {Undefined}, provider : Providers, stream : {TRUE},
   toolsEnabled : BOOLEAN]

\* the settings a user can change while a request is being built
CtxValues ==
  [model : {"m1", "m2"}, temperature : {1, 2}, maxTokens : {0, 4096},
   systemMessage : {Undefined, Str(<<"sys">>)}, provider : Providers,
   stream : BOOLEAN, toolsEnabled : BOOLEAN]

RQInit ==
  /\ rqAdapter \in {"anthropic", "ollama", "deepseek"}
  /\ liveCtx \in RqCtxs
  /\ rqPc = "start"
  /\ rqReq = NoKeys
  /\ rqSeen = {liveCtx}
  /\ TMIdle /\ ChatIdle /\ CPIdle /\ MMIdle /\ TwoIdle /\ StoresIdle

notRq == <<tmVars, chatVars, cpVars, mmVars, twoVars, csVars, apVars>>

\* makeRequest is entered and runs up to the await of the message conversion
RQStart ==
  /\ rqPc = "start"
  /\ rqReq' = CASE rqAdapter = "anthropic" -> [payload |-> AnthropicHead(liveCtx)]
                [] rqAdapter = "ollama" -> [payload |-> BaseHead(liveCtx)]
                [] rqAdapter = "deepseek" ->
                     Transport("deepseek", liveCtx)
                     @@ [payload |-> BaseHead(liveCtx)]
  /\ rqPc' = "converting"
  /\ UNCHANGED <<rqAdapter, liveCtx, rqSeen, notRq>>

\* the rest of makeRequest once the payload is complete
Send(req) ==
  IF rqAdapter = "deepseek" THEN req
  ELSE Transport(rqAdapter, liveCtx) @@ req

\* the messages are converted; without tools the request goes out, with tools
\* listTools is awaited
RQConverted ==
  /\ rqPc = "converting"
  /\ LET mid == IF rqAdapter = "anthropic"
                  THEN [rqReq EXCEPT !.payload = AnthropicMid(liveCtx) @@ @]
                  ELSE rqReq
     IN IF liveCtx.toolsEnabled
          THEN rqReq' = mid /\ rqPc' = "listing"
          ELSE /\ rqReq' = Send(IF rqAdapter = "anthropic"
                                  THEN [mid EXCEPT !.payload =
                                          (IF liveCtx.maxTokens # 0
                                             THEN [max_tokens |-> liveCtx.maxTokens]
                                             ELSE NoKeys) @@ @]
                                  ELSE mid)
               /\ rqPc' = "sent"
  /\ UNCHANGED <<rqAdapter, liveCtx, rqSeen, notRq>>

\* listTools has answered: the tools are added and the request goes out
RQListed ==
  /\ rqPc = "listing"
  /\ rqReq' = Send([rqReq EXCEPT !.payload =
                      IF rqAdapter = "anthropic"
                        THEN AnthropicTail(liveCtx) @@ @
                        ELSE ToolKeys(liveCtx, RqListed, {}) @@ @])
  /\ rqPc' = "sent"
  /\ UNCHANGED <<rqAdapter, liveCtx, rqSeen, notRq>>

\* the user changes a setting while the call is suspended; the context's
\* getters answer from the current settings
CtxChange ==
  /\ rqPc \in {"converting", "listing"}
  /\ Cardinality(rqSeen) <= MaxChanges
  /\ \E c \in CtxValues :
       /\ c.toolsEnabled = liveCtx.toolsEnabled
       /\ Cardinality({f \in DOMAIN c : c[f] # liveCtx[f]}) = 1
       /\ liveCtx' = c
       /\ rqSeen' = rqSeen \cup {c}
  /\ UNCHANGED <<rqAdapter, rqPc, rqReq, notRq>>

RQNext ==
  \/ RQStart
  \/ RQConverted
  \/ RQListed
  \/ CtxChange

SpecRequest == RQInit /\ [][RQNext]_vars

\* the request a call would send if every read saw the context value c
RequestOf(a, c) ==
  Transport(a, c)
  @@ [payload |->
        IF a = "anthropic"
          THEN [k \in DOMAIN MakePayload(c, <<>>, RqListed, {}) \ {"messages"} |->
                  MakePayload(c, <<>>, RqListed, {})[k]]
          ELSE ToolKeys(c, RqListed, {}) @@ BaseHead(c)]

\* C18: the payload, URL, headers and stream mode of one request all reflect
\* the context values of a single instant, also when the context changes while
\* the call is suspended at the message conversion or the tool listing.
C18_SingleSnapshot ==
  rqPc = "sent" => \E c \in rqSeen : rqReq = RequestOf(rqAdapter, c)

\* a request built while nothing changes is the request of that context
RequestOfUnchangedContext ==
  (rqPc = "sent" /\ Cardinality(rqSeen) = 1) => rqReq = RequestOf(rqAdapter, liveCtx)

\* ========================================================= concurrent submits
\* the two submits of one chat (the editor's submit and a retry event)
Turns == {1, 2}

TwoCtx ==
  [model |-> "claude", temperature |-> 1, maxTokens |-> 0,
   systemMessage |-> Undefined, toolsEnabled |-> TRUE]

TwoListed == Listed([i \in 1..Len(HostToolNames) |-> McpTool(HostToolNames[i])])

\* a service instance as createService returns it
NewService == [usedToolNames |-> {}]

\* a submit that has not begun
NoTurn ==
  [pc |-> "idle", own |-> 0, svc |-> 0, round |-> 0, pendingTool |-> Null,
   used |-> {}, messages |-> <<>>, payload |-> NoKeys]

T2Init ==
  /\ current = 0
  /\ services = <<>>
  /\ turn = [p \in Turns |-> NoTurn]
  /\ TMIdle /\ ChatIdle /\ CPIdle /\ MMIdle /\ RQIdle /\ StoresIdle

notTwo == <<tmVars, chatVars, cpVars, mmVars, rqVars, csVars, apVars>>

\* onSubmit, line 1661: a service is created and stored in the shared ref
\* chatService.current; the handler then awaits the chat and message writes
T2Submit(p) ==
  /\ turn[p].pc = "idle"
  /\ services' = Append(services, NewService)
  /\ current' = Len(services) + 1
  /\ turn' = [turn EXCEPT ![p].pc = "preparing", ![p].own = Len(services) + 1]
  /\ UNCHANGED notTwo

\* lines 2004-2043: the observers are registered on, and chat() is called on,
\* whatever chatService.current holds by now
T2Chat(p) ==
  /\ turn[p].pc = "preparing"
  /\ turn' = [turn EXCEPT
                ![p].pc = "Sending",
                ![p].svc = current,
                ![p].messages = <<[role |-> "user", content |-> Str(<<"hi">>)]>>]
  /\ UNCHANGED <<current, services, notTwo>>

\* makeRequest of the turn's chat() call: the tools used on the instance are
\* left out of the payload
T2Send(p) ==
  /\ turn[p].pc = "Sending"
  /\ turn' = [turn EXCEPT
                ![p].pc = "Streaming",
                ![p].payload =
                  MakePayload(TwoCtx, AnthropicMakeMessages(<<>>, turn[p].messages),
                              TwoListed, services[turn[p].svc].usedToolNames)]
  /\ UNCHANGED <<current, services, notTwo>>

\* the model asks for one of the offered tools
T2ToolCall(p) ==
  /\ turn[p].pc = "Streaming"
  /\ "tools" \in DOMAIN turn[p].payload
  /\ turn[p].round < MaxRounds
  /\ \E k \in 1..Len(turn[p].payload.tools) :
       turn' = [turn EXCEPT ![p].pc = "ToolPending",
                            ![p].pendingTool = turn[p].payload.tools[k].name]
  /\ UNCHANGED <<current, services, notTwo>>

\* the tool host answered: the tool messages join the call's working list and
\* the tool name is recorded on the instance
T2ToolResult(p) ==
  /\ turn[p].pc = "ToolPending"
  /\ LET t == [id |-> turn[p].round + 1, name |-> turn[p].pendingTool,
               args |-> "none"]
         made == AnthropicMakeToolMessages(t, StringResult(<<"ok">>), <<>>, <<>>)
     IN turn' = [turn EXCEPT
                   ![p].pc = "Sending",
                   ![p].round = @ + 1,
                   ![p].pendingTool = Null,
                   ![p].used = @ \cup {turn[p].pendingTool},
                   ![p].messages = @ \o [i \in 1..Len(made) |-> ToolMessage(made[i])]]
  /\ services' = [services EXCEPT
                    ![turn[p].svc].usedToolNames = @ \cup {turn[p].pendingTool}]
  /\ UNCHANGED <<current, notTwo>>

\* the model answers without a tool call: the turn completes
T2Done(p) ==
  /\ turn[p].pc = "Streaming"
  /\ turn' = [turn EXCEPT ![p].pc = "Completed"]
  /\ UNCHANGED <<current, services, notTwo>>

T2Next ==
  \E p \in Turns :
    \/ T2Submit(p)
    \/ T2Chat(p)
    \/ T2Send(p)
    \/ T2ToolCall(p)
    \/ T2ToolResult(p)
    \/ T2Done(p)

SpecTwo == T2Init /\ [][T2Next]_vars

\* the names of the tools a payload offers
Offered(pl) ==
  IF "tools" \in DOMAIN pl THEN {pl.tools[k].name : k \in 1..Len(pl.tools)} ELSE {}

\* C19: two turns submitted concurrently for one chat do not share tool-loop
\* state: each works on the service instance its own submit created, and the
\* payload of a turn leaves out exactly the tools that this turn has used,
\* never a tool used only by the other turn.
C19_TurnsIsolated ==
  \A p \in Turns :
    turn[p].pc = "Streaming" =>
      /\ turn[p].svc = turn[p].own
      /\ Offered(turn[p].payload) = Range(HostToolNames) \ turn[p].used

\* ------------------------------------------------------------ request headers
\* the key has a character that is not white space
NonBlankKey(key) == \E i \in 1..Len(key) : key[i] # " "

\* the key without its leading and trailing white space
TrimmedKey(key) ==
  IF NonBlankKey(key)
    THEN LET first == CHOOSE i \in 1..Len(key) :
                        key[i] # " " /\ \A j \in 1..(i - 1) : key[j] = " "
             last == CHOOSE i \in 1..Len(key) :
                       key[i] # " " /\ \A j \in (i + 1)..Len(key) : key[j] = " "
         IN SubSeq(key, first, last)
    ELSE <<>>

\* the headers the vendor of adapter a expects for the API key `key`
HeadersFor(a, key, h) ==
  /\ "Content-Type" \in DOMAIN h
  /\ h["Content-Type"] = <<"application/json">>
  /\ CASE a = "anthropic" ->
            /\ DOMAIN h = {"Content-Type", "x-api-key", "anthropic-version"}
            /\ h["x-api-key"] = TrimmedKey(key)
       [] a = "deepseek" ->
            /\ DOMAIN h = {"Content-Type", "Authorization"}
            /\ h["Authorization"] = <<"Bearer ">> \o TrimmedKey(key)
       [] a = "ollama" ->
            IF NonBlankKey(key)
              THEN /\ DOMAIN h = {"Content-Type", "Authorization"}
                   /\ h["Authorization"] = <<"Bearer ">> \o TrimmedKey(key)
              ELSE DOMAIN h = {"Content-Type"}

\* C21: every request issued carries Content-Type: application/json and the
\* vendor's auth header built from the trimmed API key of the provider the
\* context held when makeRequest read it: x-api-key with anthropic-version for
\* Anthropic, Authorization: Bearer for DeepSeek, and for Ollama
\* Authorization: Bearer exactly when the key is non-blank.
C21_VendorHeaders ==
  rqPc = "sent" =>
    \E c \in rqSeen : HeadersFor(rqAdapter, c.provider.apiKey, rqReq.headers)

\* an Ollama request went out for a provider whose key is only white space
C21_Witness ==
  /\ rqPc = "sent"
  /\ rqAdapter = "ollama"
  /\ liveCtx.provider.apiKey = <<" ">>
  /\ Cardinality(rqSeen) = 1

\* ------------------------------------------------------ Anthropic history
\* the structured prompts a prior turn holds
PromptsOf(t) ==
  IF t.structuredPrompts # <<>> /\ CtxParses(<<t>>)
    THEN JsonParse(t.structuredPrompts) ELSE <<>>

\* what a prior turn contributes: its structured prompts, or one user message
\* with its prompt when it has none, and then the assistant message
TurnPart(t) ==
  (IF PromptsOf(t) # <<>>
     THEN [i \in 1..Len(PromptsOf(t)) |->
             [role |-> PromptsOf(t)[i].role, content |-> PromptsOf(t)[i].content]]
     ELSE <<[role |-> "user", content |-> t.prompt]>>)
  \o <<[role |-> "assistant", content |-> t.reply]>>

HistoryPart(history) == Concat([i \in 1..Len(history) |-> TurnPart(history[i])])

\* output message o is the conversion of input message m
ConvertedFrom(o, m) ==
  IF m.role = "tool" THEN "tool_use_id" \in DOMAIN o /\ o.tool_use_id = m.tool_call_id
  ELSE "role" \in DOMAIN o /\ o.role = m.role

\* C22: Anthropic makeMessages returns the history first, each prior turn
\* giving its structured prompts (or one user message with its prompt when it
\* has none) and then its assistant message, and after it the converted new
\* messages in input order; the length is the sum of both parts.
C22_HistoryThenNewTurn ==
  MMDone("anthropic") =>
    LET h == HistoryPart(mmHistory)
    IN /\ Len(mmOut) = Len(h) + Len(mmMessages)
       /\ SubSeq(mmOut, 1, Len(h)) = h
       /\ \A i \in 1..Len(mmMessages) :
            ConvertedFrom(mmOut[Len(h) + i], mmMessages[i])

\* ------------------------------------------------------ DeepSeek messages
\* the fields of a message besides its content
OtherFields(m) == [k \in DOMAIN m \ {"content"} |-> m[k]]

\* C23: DeepSeek makeMessages returns exactly one message for every message of
\* the base conversion, in the same order, each with a string content: a string
\* content is kept, an array content becomes the text fields of its parts
\* joined by a newline, and the other fields of the message are kept.
C23_DeepSeekOneToOne ==
  MMDone("deepseek") =>
    /\ Len(mmOut) = Len(mmMessages)
    /\ \A i \in 1..Len(mmMessages) :
         /\ mmOut[i].content.ty = "string"
         /\ OtherFields(mmOut[i]) = OtherFields(mmMessages[i])
         /\ IsStringMsg(mmMessages[i]) => mmOut[i].content = mmMessages[i].content
         /\ IsArrayMsg(mmMessages[i]) =>
              mmOut[i].content.s =
                Join([j \in 1..Len(mmMessages[i].content.parts) |->
                        mmMessages[i].content.parts[j].text], <<"\n">>)

\* -------------------------------------------------------- Ollama order
\* the message Ollama makeMessages makes from base message m, if it makes one
OllamaMade(m) ==
  IF IsStringMsg(mmMessages[m]) THEN <<mmMessages[m]>>
  ELSE IF IsArrayMsg(mmMessages[m])
    THEN <<OllamaProcessed(mmMessages[m], mmVision,
                           IF mmVision THEN heap[OllamaTarget(m)]
                           ELSE OllamaImagesOf(mmMessages[m], heap))>>
  ELSE <<>>

\* C24: Ollama makeMessages returns the messages in the relative order of the
\* list produced by the base conversion, for every mix of string-content and
\* array-content messages, with or without vision, however long a fetch takes.
C24_OllamaOrderKept ==
  MMDone("ollama") =>
    mmOut = Concat([m \in 1..Len(mmMessages) |-> OllamaMade(m)])

\* ------------------------------------------------- tool message block order
\* C25: the output of Anthropic makeToolMessages does not depend on the order
\* in which the block conversions and resource resolutions complete: the parts
\* after the placeholder, and the texts joined in the text-only case, are in
\* the order of the blocks of toolResult.content, as in the Ollama adapter.
C25_BlockOrderKept ==
  (tmPc = "done" /\ NeedsConversion(toolResult)) =>
    tmResult = IF adapter = "anthropic"
                 THEN AnthropicMakeToolMessages(tool, toolResult, converted, content)
                 ELSE OllamaMakeToolMessages(tool, toolResult, converted)

\* ------------------------------------------------------------ loading flag
\* every continuation of onSubmit and of the engine that can run does run
FairTurn == Spec /\ WF_vars(Next)

\* C26: a submit that sets states[chatId].loading to true eventually sets it
\* back to false, on every path of onSubmit: completion, an error reported by
\* the service, an abort seen before the request is sent, and an
\* unsupported-content failure while an MCP prompt is converted.
C26_LoadingReset == Loading ~> ~Loading

\* ------------------------------------------------------- running tool flag
\* states[chatId].runningTool names a tool
RunningTool ==
  "runningTool" \in DOMAIN store.states /\ store.states.runningTool # Null

\* C27: once a chat turn has reached a terminal callback (onComplete, or
\* onError with or without abort), states[chatId].runningTool no longer names
\* a tool, whatever onToolCalls events came before.
C27_RunningToolCleared == svc.state \in Terminal => ~RunningTool

\* =============================================================== useChatStore
\* bounds: rows created per table in one run, and appendReply calls in one run
MaxRows == 2
MaxAppends == 2

\* the identifiers typeid generates in one run
MaxIds == MaxRows + 1

TempChat == [id |-> "temp", summary |-> <<>>, input |-> <<"draft">>]

\* the store as created (part_000 121-127)
EmptyChatStore == [folders |-> NoKeys, chats |-> <<>>, chat |-> TempChat, messages |-> <<>>]

\* the text of a field that holds a string or nothing
TextOf(v) == IF v.ty = "string" THEN v.s ELSE <<>>

\* `${a}${b}` when a is truthy, else b (lines 618-621)
Appended(prev, delta) ==
  IF prev.ty = "string" /\ prev.s # <<>> THEN Str(prev.s \o delta) ELSE Str(delta)

\* messages.find / findIndex by id: the first index, or 0
FindIndex(messages, id) ==
  IF \E i \in 1..Len(messages) : messages[i].id = id
    THEN CHOOSE i \in 1..Len(messages) :
           messages[i].id = id /\ \A j \in 1..(i - 1) : messages[j].id # id
    ELSE 0

\* faulty variant: the delta replaces the reply instead of extending it
appendReplyOverwriting(st, msgId, reply, reasoning) ==
  LET k == FindIndex(st.messages, msgId)
  IN IF k = 0 THEN st
     ELSE [st EXCEPT !.messages[k].reply = Str(reply),
                     !.messages[k].reasoning = Appended(@, reasoning)]

\* appendReply (613-625)
appendReply(st, msgId, reply, reasoning) ==
  LET k == FindIndex(st.messages, msgId)
  IN IF k = 0 THEN st
     ELSE [st EXCEPT !.messages[k].reply = Appended(@, reply),
                     !.messages[k].reasoning = Appended(@, reasoning)]

\* createMessage (596-612) as Grid.tsx calls it: reply '', no reasoning
createMessage(st, id) ==
  [st EXCEPT !.messages =
     Append(@, [id |-> id, reply |-> Str(<<>>), reasoning |-> Undefined])]

\* createFolder (175-195): the outcome of the call and the store after it
createFolder(st, id, ok) ==
  IF ~ok THEN [threw |-> TRUE, st |-> st]
  ELSE [threw |-> FALSE,
        st |-> [st EXCEPT !.folders =
                  (id :> [id |-> id, name |-> "New Folder", isNew |-> TRUE]) @@ @]]

\* faulty variant: the store is written before the database answer is tested
createChatOptimistic(st, id, chat, ok) ==
  LET made == [input |-> <<>>] @@ [id |-> id] @@ chat @@ st.chat
  IN [threw |-> ~ok,
      st |-> [st EXCEPT !.chat = made, !.chats = <<made>> \o @, !.messages = <<>>]]

\* createChat (372-427), without a beforeSetCallback
createChat(st, id, chat, ok) ==
  LET made == [input |-> <<>>] @@ [id |-> id] @@ chat @@ st.chat
  IN IF ~ok THEN [threw |-> TRUE, st |-> st]
     ELSE [threw |-> FALSE,
           st |-> [st EXCEPT !.chat = made, !.chats = <<made>> \o @,
                             !.messages = <<>>]]

\* deleteMessage (721-739)
deleteMessage(st, id, ok) ==
  LET index == FindIndex(st.messages, id)
  IN IF ~ok THEN [threw |-> TRUE, st |-> st]
     ELSE [threw |-> FALSE,
           st |-> IF index > 0
                    THEN [st EXCEPT !.messages =
                            SubSeq(@, 1, index - 1) \o SubSeq(@, index + 1, Len(@))]
                    ELSE st]

\* typeid(prefix): the n-th identifier generated
TypeId(prefix, n) == <<prefix, n>>

\* the ids a caller may pass: those of the stored messages and one that is not there
MessageIds(st) ==
  {st.messages[i].id : i \in 1..Len(st.messages)} \cup {TypeId("msg", 0)}

\* the (content, reasoning) pairs the onReading handler passes on (2005-2006)
Deltas == {<<<<"a">>, <<>>>>, <<<<"b">>, <<"b">>>>, <<<<>>, <<"t">>>>}

CSInit ==
  /\ cs = EmptyChatStore
  /\ csLast = [op |-> "none", ok |-> TRUE, threw |-> FALSE, made |-> 0,
               appends |-> 0, base |-> <<>>, deltas |-> <<>>]
  /\ ap = NoKeys
  /\ ls = NoKeys
  /\ TMIdle /\ ChatIdle /\ CPIdle /\ MMIdle /\ RQIdle /\ TwoIdle

notCs == <<tmVars, chatVars, cpVars, mmVars, rqVars, twoVars, apVars>>

\* the record of a call that is not appendReply
Called(op, ok, threw, made, st) ==
  [csLast EXCEPT !.op = op, !.ok = ok, !.threw = threw, !.made = made,
                 !.base = st.messages, !.deltas = <<>>]

CSCreateMessage ==
  /\ Len(cs.messages) < MaxRows
  /\ csLast.made < MaxIds
  /\ cs' = createMessage(cs, TypeId("msg", csLast.made + 1))
  /\ csLast' = Called("createMessage", TRUE, FALSE, csLast.made + 1, cs')
  /\ UNCHANGED notCs

CSAppendReply ==
  /\ csLast.appends < MaxAppends
  /\ \E id \in MessageIds(cs) : \E d \in Deltas :
       /\ cs' = appendReply(cs, id, d[1], d[2])
       /\ csLast' = [csLast EXCEPT
                       !.op = "appendReply", !.ok = TRUE, !.threw = FALSE,
                       !.appends = @ + 1,
                       !.deltas = Append(@, [id |-> id, reply |-> d[1],
                                                reasoning |-> d[2]])]
  /\ UNCHANGED notCs

CSDeleteMessage ==
  /\ \E id \in MessageIds(cs) : \E ok \in BOOLEAN :
       /\ cs' = deleteMessage(cs, id, ok).st
       /\ csLast' = Called("deleteMessage", ok, deleteMessage(cs, id, ok).threw,
                           csLast.made, cs')
  /\ UNCHANGED notCs

CSCreateFolder ==
  /\ csLast.made < MaxIds
  /\ \E ok \in BOOLEAN :
       LET out == createFolder(cs, TypeId("dir", csLast.made + 1), ok)
       IN /\ cs' = out.st
          /\ csLast' = Called("createFolder", ok, out.threw, csLast.made + 1, cs')
  /\ UNCHANGED notCs

CSCreateChat ==
  /\ csLast.made < MaxIds
  /\ \E ok \in BOOLEAN : \E chat \in {NoKeys, [summary |-> <<"s">>]} :
       LET out == createChat(cs, TypeId("chat", csLast.made + 1), chat, ok)
       IN /\ cs' = out.st
          /\ csLast' = Called("createChat", ok, out.threw, csLast.made + 1, cs')
  /\ UNCHANGED notCs

CSNext ==
  \/ CSCreateMessage
  \/ CSAppendReply
  \/ CSDeleteMessage
  \/ CSCreateFolder
  \/ CSCreateChat

SpecChatStore == CSInit /\ [][CSNext]_vars

\* the deltas of the current run of appendReply calls that went to message id,
\* joined in call order
JoinedDeltas(id, field) ==
  Concat([k \in 1..Len(csLast.deltas) |->
            IF csLast.deltas[k].id = id THEN csLast.deltas[k][field] ELSE <<>>])

\* C28: after any sequence of appendReply(msgId, r_i, s_i) calls a message ends
\* with its previous reply followed by the r_i addressed to it, in call order,
\* and its previous reasoning followed by the s_i; a message that was not
\* addressed is unchanged, and calls for an id that no message has change
\* nothing. (csLast.base is the message list before the first call of the run.)
C28_AppendReplyConcatenates ==
  csLast.op = "appendReply" =>
    /\ Len(cs.messages) = Len(csLast.base)
    /\ \A i \in 1..Len(csLast.base) :
         LET before == csLast.base[i]
             after == cs.messages[i]
             addressed == \E k \in 1..Len(csLast.deltas) :
                            csLast.deltas[k].id = before.id
         IN IF addressed
              THEN /\ after.id = before.id
                   /\ after.reply.ty = "string"
                   /\ after.reply.s
                        = TextOf(before.reply) \o JoinedDeltas(before.id, "reply")
                   /\ after.reasoning.ty = "string"
                   /\ after.reasoning.s
                        = TextOf(before.reasoning)
                          \o JoinedDeltas(before.id, "reasoning")
              ELSE after = before

\* two calls went to the first of two messages, with different texts
C28_Witness ==
  /\ csLast.op = "appendReply"
  /\ Len(cs.messages) = 2
  /\ Len(csLast.deltas) = 2
  /\ csLast.deltas[1].id = cs.messages[1].id
  /\ csLast.deltas[2].id = cs.messages[1].id
  /\ cs.messages[1].reply.s = <<"a", "b">>
  /\ cs.messages[1].reasoning.s = <<"b">>

\* C30: createFolder, createChat and deleteMessage raise an error when the
\* database write reports failure, and then the folders, chats, current chat
\* and messages are exactly what they were before the call.
C30_FailedWriteLeavesStore ==
  [][(csLast'.op \in {"createFolder", "createChat", "deleteMessage"} /\ ~csLast'.ok)
       => (csLast'.threw /\ cs' = cs)]_vars

\* createChat failed while the store held a chat list and messages
C30_Witness ==
  /\ csLast.op = "createChat"
  /\ ~csLast.ok
  /\ csLast.threw
  /\ cs.messages # <<>>
  /\ cs.chats # <<>>

\* ========================================================= useAppearanceStore
\* String(boolean)
StringOf(b) == IF b THEN "true" ELSE "false"

\* localStorage.getItem: null for a key that was never set
GetItem(storage, key) == IF key \in DOMAIN storage THEN storage[key] ELSE Null

\* localStorage.setItem
SetItem(storage, key, value) == (key :> value) @@ storage

\* the store as create() builds it from localStorage (lines 24-33)
CreateAppearance(storage) ==
  [theme |-> "light",
   sidebar |-> [hidden |-> GetItem(storage, "sidebar-hidden") = "true",
                collapsed |-> GetItem(storage, "sidebar-collapsed") = "true",
                folderEditing |-> FALSE],
   chatSidebar |-> [show |-> GetItem(storage, "chat-sidebar-show") = "true"]]

\* a first start: nothing is stored yet
APInit ==
  /\ ls = NoKeys
  /\ ap = CreateAppearance(ls)
  /\ cs = NoKeys
  /\ csLast = NoKeys
  /\ TMIdle /\ ChatIdle /\ CPIdle /\ MMIdle /\ RQIdle /\ TwoIdle

notAp == <<tmVars, chatVars, cpVars, mmVars, rqVars, twoVars, csVars>>

\* toggleSidebarCollapsed (42-50)
ToggleSidebarCollapsed ==
  /\ ls' = SetItem(ls, "sidebar-collapsed", StringOf(~ap.sidebar.collapsed))
  /\ ap' = [ap EXCEPT !.sidebar = [collapsed |-> ~ap.sidebar.collapsed,
                                   hidden |-> FALSE, folderEditing |-> FALSE]]
  /\ UNCHANGED notAp

\* toggleSidebarVisibility (51-59)
ToggleSidebarVisibility ==
  /\ ls' = SetItem(ls, "sidebar-hidden", StringOf(~ap.sidebar.hidden))
  /\ ap' = [ap EXCEPT !.sidebar = [collapsed |-> FALSE,
                                   hidden |-> ~ap.sidebar.hidden,
                                   folderEditing |-> FALSE]]
  /\ UNCHANGED notAp

\* toggleChatSidebarVisibility (60-67)
ToggleChatSidebarVisibility ==
  /\ ls' = SetItem(ls, "chat-sidebar-show", StringOf(~ap.chatSidebar.show))
  /\ ap' = [ap EXCEPT !.chatSidebar = [show |-> ~ap.chatSidebar.show]]
  /\ UNCHANGED notAp

\* setTheme (34-41)
SetTheme ==
  /\ \E theme \in {"light", "dark"} : ap' = [ap EXCEPT !.theme = theme]
  /\ UNCHANGED <<ls, notAp>>

\* setFolderEditing (84-88)
SetFolderEditing ==
  /\ \E editing \in BOOLEAN : ap' = [ap EXCEPT !.sidebar.folderEditing = editing]
  /\ UNCHANGED <<ls, notAp>>

\* the window is reloaded: the store is created again from localStorage
Reload ==
  /\ ap' = CreateAppearance(ls)
  /\ UNCHANGED <<ls, notAp>>

APNext ==
  \/ ToggleSidebarCollapsed
  \/ ToggleSidebarVisibility
  \/ ToggleChatSidebarVisibility
  \/ SetTheme
  \/ SetFolderEditing
  \/ Reload

SpecAppearance == APInit /\ [][APNext]_vars

\* C29: after any sequence of toggleSidebarCollapsed and
\* toggleSidebarVisibility calls the flags persisted in localStorage equal the
\* sidebar flags in memory, so the store created again from localStorage has
\* the same sidebar state, and the sidebar is never both hidden and collapsed.
C29_SidebarPersisted ==
  /\ CreateAppearance(ls).sidebar.hidden = ap.sidebar.hidden
  /\ CreateAppearance(ls).sidebar.collapsed = ap.sidebar.collapsed
  /\ ~(ap.sidebar.hidden /\ ap.sidebar.collapsed)

====
